---------------------------- MODULE Spec2Model ----------------------------
(***************************************************************************)
(* The in-memory to-do store of fuzzy-fishstick's Go back end: the todo   *)
(* and recurring-definition collections, the HTTP handlers that mutate    *)
(* them under store.mu, the pattern validator and the recurrence engine.  *)
(***************************************************************************)
EXTENDS Integers, Sequences, FiniteSets, TLC

(***************************************************************************)
(* Bounds of the model.                                                    *)
(***************************************************************************)
MaxTodoID == 2
MaxRecurringID == 2
MaxTime == 2
MaxPosition == 0
MaxOrder == 1
TicksPerDay == 2

\* A nil pointer (*int, *time.Time) of the Go structs.
Nil == -1

\* The calendar covers YearSpan years from 2023: instant 0 is the start of
\* Sunday 2023-01-01.
YearSpan == 3
NumProcs == 3
EngineFirstDay == 26
EngineLastDay == 36
MaxInterval == 3
MaxSlot == 2
MaxPairs == 2
MaxListed == 2
MaxDragged == 3
MaxAssignees == 3
TimeBits == 4
Today == 1

(***************************************************************************)
(* Calendar arithmetic of time.Time.AddDate and time.Time.Weekday.  An     *)
(* instant is a number of ticks; TicksPerDay ticks make a day.             *)
(***************************************************************************)
IsLeap(y) == (y % 4 = 0 /\ y % 100 # 0) \/ y % 400 = 0

DaysInYear(y) == IF IsLeap(y) THEN 366 ELSE 365

DaysInMonth(y, m) ==
    IF m = 2 THEN (IF IsLeap(y) THEN 29 ELSE 28)
    ELSE IF m \in {4, 6, 9, 11} THEN 30 ELSE 31

RECURSIVE DaysBeforeYear(_)
DaysBeforeYear(y) ==
    IF y <= 2023 THEN 0 ELSE DaysBeforeYear(y - 1) + DaysInYear(y - 1)

RECURSIVE DaysBeforeMonth(_, _)
DaysBeforeMonth(y, m) ==
    IF m <= 1 THEN 0 ELSE DaysBeforeMonth(y, m - 1) + DaysInMonth(y, m - 1)

\* time.Date(y, m, d): a day beyond the month's end rolls into the next month.
DayNumber(y, m, d) == DaysBeforeYear(y) + DaysBeforeMonth(y, m) + (d - 1)

YearOf(n) ==
    CHOOSE y \in 2023..(2023 + YearSpan) :
        DaysBeforeYear(y) <= n /\ n < DaysBeforeYear(y + 1)

MonthOf(n) ==
    LET y == YearOf(n)
        r == n - DaysBeforeYear(y)
    IN  CHOOSE m \in 1..12 :
            DaysBeforeMonth(y, m) <= r /\ r < DaysBeforeMonth(y, m) + DaysInMonth(y, m)

DayOfMonth(n) ==
    LET y == YearOf(n)
    IN  n - DaysBeforeYear(y) - DaysBeforeMonth(y, MonthOf(n)) + 1

\* A month addition that clamps the day to the last day of the target month.
AddDateClamped(t, months, days) ==
    LET n  == t \div TicksPerDay
        m0 == (MonthOf(n) - 1) + months
        y2 == YearOf(n) + (m0 \div 12)
        m2 == (m0 % 12) + 1
        d2 == IF DayOfMonth(n) > DaysInMonth(y2, m2)
              THEN DaysInMonth(y2, m2) ELSE DayOfMonth(n)
    IN  DayNumber(y2, m2, d2 + days) * TicksPerDay + (t % TicksPerDay)

\* t.AddDate(0, months, days)
AddDate(t, months, days) ==
    LET n  == t \div TicksPerDay
        m0 == (MonthOf(n) - 1) + months
        y2 == YearOf(n) + (m0 \div 12)
        m2 == (m0 % 12) + 1
    IN  DayNumber(y2, m2, DayOfMonth(n) + days) * TicksPerDay + (t % TicksPerDay)

\* t.Weekday(): 0 is Sunday.
Weekday(t) == (t \div TicksPerDay) % 7


(***************************************************************************)
(* Pattern validator and entity validators.                                *)
(***************************************************************************)
validFrequencies == {"daily", "weekly", "monthly"}

validDays ==
    {"Sunday", "Monday", "Tuesday", "Wednesday", "Thursday", "Friday", "Saturday"}

\* A validator that checks the weekday names for every frequency.
validateRecurrencePatternAllDays(pattern) ==
    /\ pattern.frequency \in validFrequencies
    /\ pattern.interval >= 1
    /\ \A i \in DOMAIN pattern.daysOfWeek : pattern.daysOfWeek[i] \in validDays

\* TRUE when the Go function returns nil (no error).
validateRecurrencePattern(pattern) ==
    /\ pattern.frequency \in validFrequencies
    /\ pattern.interval >= 1
    /\ (pattern.frequency = "weekly" /\ Len(pattern.daysOfWeek) > 0)
          => \A i \in DOMAIN pattern.daysOfWeek : pattern.daysOfWeek[i] \in validDays

\* A validator that accepts every title.
validateTodoItemAnyTitle(todo) == TRUE

validateTodoItem(todo) == todo.title # ""

validateRecurringDefinition(def) ==
    /\ def.title # ""
    /\ validateRecurrencePattern(def.pattern)

(***************************************************************************)
(* Recurrence engine.  The Go code reads time.Now() inside                 *)
(* calculateNextDueDate; the instant it read is the parameter now.         *)
(***************************************************************************)
dayMap(day) ==
    CASE day = "Sunday"    -> 0
      [] day = "Monday"    -> 1
      [] day = "Tuesday"   -> 2
      [] day = "Wednesday" -> 3
      [] day = "Thursday"  -> 4
      [] day = "Friday"    -> 5
      [] day = "Saturday"  -> 6
      [] OTHER             -> Nil

\* The loop "for i := 0; i < 14; i++" of calculateNextWeeklyDate.
RECURSIVE WeeklyScan(_, _, _, _)
WeeklyScan(nextDate, i, targetDays, fallback) ==
    IF i >= 14 THEN fallback
    ELSE IF Weekday(nextDate) \in targetDays THEN nextDate
    ELSE WeeklyScan(AddDate(nextDate, 0, 1), i + 1, targetDays, fallback)

\* A scan that starts on the day of from itself.
calculateNextWeeklyDateFromToday(from, daysOfWeek, interval) ==
    LET targetDays ==
            {dayMap(daysOfWeek[i]) : i \in {j \in DOMAIN daysOfWeek : daysOfWeek[j] \in validDays}}
    IN  IF targetDays = {}
        THEN AddDate(from, 0, 7 * interval)
        ELSE WeeklyScan(from, 0, targetDays, AddDate(from, 0, 7 * interval))

calculateNextWeeklyDate(from, daysOfWeek, interval) ==
    LET targetDays ==
            {dayMap(daysOfWeek[i]) : i \in {j \in DOMAIN daysOfWeek : daysOfWeek[j] \in validDays}}
    IN  IF targetDays = {}
        THEN AddDate(from, 0, 7 * interval)
        ELSE WeeklyScan(AddDate(from, 0, 1), 0, targetDays, AddDate(from, 0, 7 * interval))

\* A switch whose daily and weekly cases ignore pattern.Interval.
StepDateUnit(nextDate, pattern) ==
    CASE pattern.frequency = "daily"   -> AddDate(nextDate, 0, 1)
      [] pattern.frequency = "weekly"  -> AddDate(nextDate, 0, 7)
      [] pattern.frequency = "monthly" -> AddDate(nextDate, pattern.interval, 0)
      [] OTHER                         -> nextDate

\* One pass of the switch inside the loop of calculateNextDueDate.
StepDate(nextDate, pattern) ==
    CASE pattern.frequency = "daily"   -> AddDate(nextDate, 0, pattern.interval)
      [] pattern.frequency = "weekly"  -> AddDate(nextDate, 0, 7 * pattern.interval)
      [] pattern.frequency = "monthly" -> AddDate(nextDate, pattern.interval, 0)
      [] OTHER                         -> nextDate

\* An "if nextDate.Before(now)" in place of the loop.
AdvanceOnce(nextDate, pattern, now) ==
    IF nextDate < now
    THEN StepDate(nextDate, pattern)
    ELSE nextDate

\* The loop "for nextDate.Before(now)".
RECURSIVE AdvanceLoop(_, _, _)
AdvanceLoop(nextDate, pattern, now) ==
    IF nextDate < now
    THEN AdvanceLoop(StepDate(nextDate, pattern), pattern, now)
    ELSE nextDate

\* An engine whose weekday branch scans from the anchor instead of now.
calculateNextDueDateFromAnchor(startDate, pattern, now) ==
    IF pattern.frequency = "weekly" /\ Len(pattern.daysOfWeek) > 0
    THEN calculateNextWeeklyDate(startDate, pattern.daysOfWeek, pattern.interval)
    ELSE AdvanceLoop(startDate, pattern, now)

calculateNextDueDate(startDate, pattern, now) ==
    IF pattern.frequency = "weekly" /\ Len(pattern.daysOfWeek) > 0
    THEN calculateNextWeeklyDate(now, pattern.daysOfWeek, pattern.interval)
    ELSE AdvanceLoop(startDate, pattern, now)

(***************************************************************************)
(* The store (type Store) and the wall clock.                              *)
(***************************************************************************)
VARIABLES
    todos,            \* store.todos: id -> TodoItem
    recurringDefs,    \* store.recurringDefs: id -> RecurringItemDefinition
    nextTodoID,       \* store.nextTodoID
    nextRecurringID,  \* store.nextRecurringID
    clock,            \* what time.Now() returns
    last,             \* the last request answered: handler, id, body, outcome,
                      \* and what the handler found before it wrote
    mu,               \* store.mu: the writer holding it and the readers holding it
    pc,               \* where each in-flight request stands in its handler
    req,              \* the request each goroutine serves
    iter,             \* the todos a handler's range loop has still to visit
    order,            \* the goroutines in the order they acquired store.mu.Lock
    calc,             \* one evaluation of the validator and the engine:
                      \* its arguments, the verdict and the date returned
    auth,             \* what authMiddleware made of the request being served,
                      \* and the token devToken issued last
    ui                \* the state of the React component App

vars ==
    <<todos, recurringDefs, nextTodoID, nextRecurringID, clock, last,
      mu, pc, req, iter, order, calc, auth, ui>>

storeVars == <<todos, recurringDefs, nextTodoID, nextRecurringID>>

concVars == <<mu, pc, req, iter, order>>

Procs == 1..NumProcs

(***************************************************************************)
(* Request bodies the clients send, drawn from small sets.                 *)
(***************************************************************************)
Contents ==
    { [title |-> "a", description |-> "",  assignedTo |-> <<>>],
      [title |-> "b", description |-> "d", assignedTo |-> <<"alice">>] }

\* A body whose title is empty: rejected by validateTodoItem.
BadContents == { [title |-> "", description |-> "d", assignedTo |-> <<>>] }

DailyPattern == [frequency |-> "daily", interval |-> 1, daysOfWeek |-> << >>]

MonthlyPattern == [frequency |-> "monthly", interval |-> 1, daysOfWeek |-> << >>]

Patterns ==
    { DailyPattern,
      [frequency |-> "weekly", interval |-> 1, daysOfWeek |-> <<"Monday">>],
      MonthlyPattern }

BadPatterns ==
    { [frequency |-> "yearly", interval |-> 1, daysOfWeek |-> <<>>],
      [frequency |-> "daily",  interval |-> 0, daysOfWeek |-> <<>>],
      [frequency |-> "weekly", interval |-> 1, daysOfWeek |-> <<"Funday">>] }

TodoIDs == 1..(MaxTodoID + 1)

RecurringIDs == 1..(MaxRecurringID + 1)

Positions == 0..MaxPosition

\* The fields of a decoded TodoItem body other than title, description, assignedTo.
BaseShape ==
    [completed |-> FALSE, position |-> 0, isRecurring |-> FALSE,
     recurrenceId |-> Nil, dueDate |-> Nil, completedAt |-> Nil]

Body(c, shape) ==
    [title |-> c.title, description |-> c.description, assignedTo |-> c.assignedTo,
     completed |-> shape.completed, position |-> shape.position,
     isRecurring |-> shape.isRecurring, recurrenceId |-> shape.recurrenceId,
     dueDate |-> shape.dueDate, completedAt |-> shape.completedAt]

Bodies(contents, shapes) == { Body(c, s) : c \in contents, s \in shapes }

\* Bodies of POST /api/todos: the UI's, and drafts that carry the recurrence
\* fields the handler decodes as well.
LinkShapes ==
    { BaseShape,
      [BaseShape EXCEPT !.completed = TRUE],
      [BaseShape EXCEPT !.isRecurring = TRUE] }
    \cup { [BaseShape EXCEPT !.recurrenceId = r] : r \in 1..MaxRecurringID }
    \cup { [BaseShape EXCEPT !.isRecurring = TRUE, !.recurrenceId = r] : r \in 1..MaxRecurringID }

TodoBodies == Bodies(Contents, LinkShapes)

\* Bodies of PUT /api/todos/{id}.
UpdateShapes == { BaseShape, [BaseShape EXCEPT !.completed = TRUE] }

UpdateBodies == Bodies(Contents, UpdateShapes)

DefBody(c, p, sd) ==
    [title |-> c.title, description |-> c.description, assignedTo |-> c.assignedTo,
     pattern |-> p, startDate |-> sd]

\* Bodies of POST /api/recurring.
DefBodies == { DefBody(c, DailyPattern, 0) : c \in Contents }

\* Bodies of PUT /api/recurring/{id}.
DefUpdateBodies == { DefBody(c, p, 1) : c \in Contents, p \in {DailyPattern, MonthlyPattern} }

NoPattern == [frequency |-> "", interval |-> 0, daysOfWeek |-> << >>]

\* Bodies of POST /api/todos/{id}/convert-recurring.
ConvertRequests ==
    { [toRecurring |-> TRUE, pattern |-> DailyPattern],
      [toRecurring |-> FALSE, pattern |-> NoPattern] }

OrderItems == { [id |-> i, position |-> p] : i \in TodoIDs, p \in Positions }

RECURSIVE SeqsUpTo(_, _)
SeqsUpTo(S, n) ==
    IF n = 0 THEN { << >> }
    ELSE LET shorter == SeqsUpTo(S, n - 1)
         IN  shorter \cup { Append(q, x) : q \in {r \in shorter : Len(r) = n - 1}, x \in S }

\* Bodies of POST /api/todos/reorder.
Orders == SeqsUpTo(OrderItems, MaxOrder)

\* Reorder bodies of one pair whose id was assigned at some time.
SingleOrders == { <<item>> : item \in { i \in OrderItems : i.id <= MaxTodoID } }

(***************************************************************************)
(* Helpers on the two maps.                                                *)
(***************************************************************************)
Put(m, k, v) == [i \in DOMAIN m \cup {k} |-> IF i = k THEN v ELSE m[i]]

Remove(m, k) == [i \in DOMAIN m \ {k} |-> m[i]]

\* The todos whose RecurrenceID points at definition id.
LinkedTo(ts, id) == { t \in DOMAIN ts : ts[t].recurrenceId # Nil /\ ts[t].recurrenceId = id }

NoBody == << >>

NoRequest == [op |-> "none", id |-> 0, body |-> NoBody, status |-> "none"]

NoCalc ==
    [startDate |-> 0, pattern |-> NoPattern, now |-> 0,
     valid |-> "unchecked", result |-> Nil]

\* The store as main finds it, and no request in flight.
EmptyStore ==
    /\ todos = << >>
    /\ recurringDefs = << >>
    /\ nextTodoID = 1
    /\ nextRecurringID = 1
    /\ clock = 0
    /\ last = [op |-> "none", id |-> 0, status |-> "none", body |-> NoBody, before |-> NoBody]
    /\ mu = [writer |-> 0, readers |-> {}]
    /\ pc = [p \in Procs |-> "idle"]
    /\ req = [p \in Procs |-> NoRequest]
    /\ iter = [p \in Procs |-> {}]
    /\ order = << >>

\* No request has reached authMiddleware: the specifications that start
\* here serve requests that passed it.
NoToken == [alg |-> "", key |-> "", email |-> << >>, exp |-> 0]

NoAuth == [status |-> "off", header |-> <<"">>, email |-> << >>, token |-> NoToken]

NoUI == << >>

Init ==
    /\ EmptyStore
    /\ calc = NoCalc
    /\ auth = NoAuth
    /\ ui = NoUI

(***************************************************************************)
(* The handlers.  Each action below is one whole request, served while    *)
(* the handler holds store.mu.                                             *)
(***************************************************************************)
\* next.ServeHTTP: a handler runs for a request that authMiddleware let pass.
Admitted ==
    /\ auth.status \in {"off", "pass"}
    /\ auth' = IF auth.status = "pass" THEN [auth EXCEPT !.status = "served"] ELSE auth

Served(op, id, status, body, before) ==
    /\ Admitted
    /\ last' = [op |-> op, id |-> id, status |-> status, body |-> body, before |-> before]
    /\ UNCHANGED <<concVars, calc, ui>>

\* A handler that answers with an error: http.Error and return.
Reject(op, id, status, body) ==
    /\ Served(op, id, status, body, NoBody)
    /\ UNCHANGED <<storeVars, clock>>

\* Time passes between requests.
Tick ==
    /\ clock < MaxTime
    /\ clock' = clock + 1
    /\ UNCHANGED <<storeVars, last, concVars, calc, auth, ui>>

\* A NewTodo that always takes len(store.todos) as the position.
NewTodoAlwaysAppends(body, t, count) ==
    [title |-> body.title, description |-> body.description,
     assignedTo |-> body.assignedTo, completed |-> body.completed,
     position |-> count,
     isRecurring |-> body.isRecurring, recurrenceId |-> body.recurrenceId,
     dueDate |-> body.dueDate, completedAt |-> body.completedAt,
     createdAt |-> t]

\* The TodoItem createTodo stores: ID and CreatedAt are assigned, Position
\* defaults to len(store.todos), every other field is the decoded body's.
NewTodo(body, t, count) ==
    [title |-> body.title, description |-> body.description,
     assignedTo |-> body.assignedTo, completed |-> body.completed,
     position |-> IF body.position = 0 THEN count ELSE body.position,
     isRecurring |-> body.isRecurring, recurrenceId |-> body.recurrenceId,
     dueDate |-> body.dueDate, completedAt |-> body.completedAt,
     createdAt |-> t]

\* A createTodo that takes len(store.todos) + 1 as the id.
createTodoCountID(bodies) ==
    \E body \in bodies :
        IF ~validateTodoItem(body)
        THEN Reject("createTodo", 0, "invalid", body)
        ELSE /\ nextTodoID <= MaxTodoID
             /\ todos' = Put(todos, Cardinality(DOMAIN todos) + 1,
                             NewTodo(body, clock, Cardinality(DOMAIN todos)))
             /\ nextTodoID' = nextTodoID + 1
             /\ Served("createTodo", Cardinality(DOMAIN todos) + 1, "ok", body, NoBody)
             /\ UNCHANGED <<recurringDefs, nextRecurringID, clock>>

createTodo(bodies) ==
    \E body \in bodies :
        IF ~validateTodoItem(body)
        THEN Reject("createTodo", 0, "invalid", body)
        ELSE /\ nextTodoID <= MaxTodoID
             /\ todos' = Put(todos, nextTodoID,
                             NewTodo(body, clock, Cardinality(DOMAIN todos)))
             /\ nextTodoID' = nextTodoID + 1
             /\ Served("createTodo", nextTodoID, "ok", body, NoBody)
             /\ UNCHANGED <<recurringDefs, nextRecurringID, clock>>

\* A stamp that lacks "&& todo.CompletedAt == nil".
StampEveryCompletion(todo, updates, t) ==
    IF updates.completed THEN t ELSE todo.completedAt

\* if updates.Completed && todo.CompletedAt == nil { todo.CompletedAt = &now }
StampCompletedAt(todo, updates, t) ==
    IF updates.completed /\ todo.completedAt = Nil THEN t ELSE todo.completedAt

\* An update that also takes the body's isRecurring, recurrenceId and position.
ApplyUpdateWholeBody(todo, updates, t) ==
    [todo EXCEPT !.title = updates.title,
                 !.description = updates.description,
                 !.assignedTo = updates.assignedTo,
                 !.completed = updates.completed,
                 !.completedAt = StampCompletedAt(todo, updates, t),
                 !.dueDate = IF updates.dueDate # Nil THEN updates.dueDate ELSE @,
                 !.isRecurring = updates.isRecurring,
                 !.recurrenceId = updates.recurrenceId,
                 !.position = updates.position]

\* The "Update fields" block of updateTodo.
ApplyUpdate(todo, updates, t) ==
    [todo EXCEPT !.title = updates.title,
                 !.description = updates.description,
                 !.assignedTo = updates.assignedTo,
                 !.completed = updates.completed,
                 !.completedAt = StampCompletedAt(todo, updates, t),
                 !.dueDate = IF updates.dueDate # Nil THEN updates.dueDate ELSE @]

updateTodo(ids, bodies) ==
    \E id \in ids, updates \in bodies :
        IF ~validateTodoItem(updates)
        THEN Reject("updateTodo", id, "invalid", updates)
        ELSE IF id \notin DOMAIN todos
        THEN Reject("updateTodo", id, "notfound", updates)
        ELSE /\ todos' = [todos EXCEPT ![id] = ApplyUpdate(todos[id], updates, clock)]
             /\ Served("updateTodo", id, "ok", updates, NoBody)
             /\ UNCHANGED <<recurringDefs, nextTodoID, nextRecurringID, clock>>

\* A deleteTodo that also drops the definition whose last linked todo it deletes.
deleteTodoCollecting(ids) ==
    \E id \in ids :
        IF id \notin DOMAIN todos
        THEN Reject("deleteTodo", id, "notfound", NoBody)
        ELSE /\ todos' = Remove(todos, id)
             /\ recurringDefs' =
                    [d \in { k \in DOMAIN recurringDefs :
                                 \/ todos[id].recurrenceId # k
                                 \/ LinkedTo(Remove(todos, id), k) # {} }
                       |-> recurringDefs[d]]
             /\ Served("deleteTodo", id, "ok", NoBody, NoBody)
             /\ UNCHANGED <<nextTodoID, nextRecurringID, clock>>

deleteTodo(ids) ==
    \E id \in ids :
        IF id \notin DOMAIN todos
        THEN Reject("deleteTodo", id, "notfound", NoBody)
        ELSE /\ todos' = Remove(todos, id)
             /\ Served("deleteTodo", id, "ok", NoBody, NoBody)
             /\ UNCHANGED <<recurringDefs, nextTodoID, nextRecurringID, clock>>

\* The orders in which "for _, todo := range store.todos" may visit the map.
Iterations(ts) ==
    { q \in [1..Cardinality(DOMAIN ts) -> DOMAIN ts] :
          \A i, j \in DOMAIN q : i # j => q[i] # q[j] }

\* less of sort.Slice: todos[i].Position < todos[j].Position
less(ts, a, b) == ts[a].position < ts[b].position

\* A less that compares the other way round.
SinkLeftDescending(data, j, ts) ==
    IF j > 1 /\ less(ts, data[j - 1], data[j])
    THEN [data EXCEPT ![j] = data[j - 1], ![j - 1] = data[j]]
    ELSE data

\* sort.Slice on a short slice is an insertion sort: the element at j moves
\* left while it is less than its left neighbour.
RECURSIVE SinkLeft(_, _, _)
SinkLeft(data, j, ts) ==
    IF j > 1 /\ less(ts, data[j], data[j - 1])
    THEN SinkLeft([data EXCEPT ![j] = data[j - 1], ![j - 1] = data[j]], j - 1, ts)
    ELSE data

RECURSIVE InsertionSort(_, _, _)
InsertionSort(data, i, ts) ==
    IF i > Len(data) THEN data
    ELSE InsertionSort(SinkLeft(data, i, ts), i + 1, ts)

\* getTodos answers with the todos sorted by position; the store is only read.
getTodos ==
    \E visit \in Iterations(todos) :
        /\ Served("getTodos", 0, "ok", InsertionSort(visit, 2, todos), NoBody)
        /\ UNCHANGED <<storeVars, clock>>

\* A loop in which the first pair naming a todo wins.
ApplyOrderFirstWins(ts, items) ==
    [t \in DOMAIN ts |->
        LET hits == { i \in DOMAIN items : items[i].id = t }
        IN  IF hits = {} THEN ts[t]
            ELSE [ts[t] EXCEPT !.position =
                      items[CHOOSE i \in hits : \A k \in hits : i <= k].position]]

\* for _, item := range order { if todo exists { todo.Position = item.Position } }
RECURSIVE ApplyOrder(_, _)
ApplyOrder(ts, items) ==
    IF items = << >> THEN ts
    ELSE LET item == Head(items)
             next == IF item.id \in DOMAIN ts
                     THEN [ts EXCEPT ![item.id].position = item.position]
                     ELSE ts
         IN  ApplyOrder(next, Tail(items))

reorderTodos(orders) ==
    \E items \in orders :
        /\ todos' = ApplyOrder(todos, items)
        /\ Served("reorderTodos", 0, "ok", items, NoBody)
        /\ UNCHANGED <<recurringDefs, nextTodoID, nextRecurringID, clock>>

\* A conversion that seeds the definition without the todo's assignees.
DefFromTodoNoAssignees(todo, pattern, startDate, createdAt) ==
    [title |-> todo.title, description |-> todo.description,
     assignedTo |-> << >>, pattern |-> pattern,
     startDate |-> startDate, createdAt |-> createdAt]

\* The definition convertTodoRecurring seeds from the todo.
DefFromTodo(todo, pattern, startDate, createdAt) ==
    [title |-> todo.title, description |-> todo.description,
     assignedTo |-> todo.assignedTo, pattern |-> pattern,
     startDate |-> startDate, createdAt |-> createdAt]

\* A block that keeps the link of a todo that is linked already.
MakeRecurringKeepLink(todo, defID, nextDueDate) ==
    [todo EXCEPT !.isRecurring = TRUE,
                 !.recurrenceId = IF @ # Nil THEN @ ELSE defID,
                 !.dueDate = nextDueDate]

\* The "Update the todo to be recurring" block.
MakeRecurring(todo, defID, nextDueDate) ==
    [todo EXCEPT !.isRecurring = TRUE, !.recurrenceId = defID, !.dueDate = nextDueDate]

\* A one-off block that keeps the current due date.
MakeOneOffKeepDue(todo) ==
    [todo EXCEPT !.isRecurring = FALSE, !.recurrenceId = Nil]

\* The "Convert from recurring to one-off" block.
MakeOneOff(todo) ==
    [todo EXCEPT !.isRecurring = FALSE, !.recurrenceId = Nil, !.dueDate = Nil]

convertTodoRecurring(ids, requests, horizon) ==
    \E id \in ids, request \in requests :
        IF request.toRecurring /\ ~validateRecurrencePattern(request.pattern)
        THEN Reject("convertTodoRecurring", id, "invalid", request)
        ELSE IF id \notin DOMAIN todos
        THEN Reject("convertTodoRecurring", id, "notfound", request)
        ELSE LET before == [isRecurring |-> todos[id].isRecurring,
                            recurrenceId |-> todos[id].recurrenceId]
             IN
             IF request.toRecurring
             THEN \E t2 \in clock..horizon : \E t3 \in t2..horizon :
                    \* the three reads of time.Now(): StartDate, CreatedAt, the engine's
                    LET def == DefFromTodo(todos[id], request.pattern, clock, t2)
                        nextDueDate == calculateNextDueDate(def.startDate, def.pattern, t3)
                    IN  /\ nextRecurringID <= MaxRecurringID
                        /\ recurringDefs' = Put(recurringDefs, nextRecurringID, def)
                        /\ nextRecurringID' = nextRecurringID + 1
                        /\ todos' = [todos EXCEPT ![id] =
                                        MakeRecurring(todos[id], nextRecurringID, nextDueDate)]
                        /\ clock' = t3
                        /\ Served("convertTodoRecurring", id, "ok", request, before)
                        /\ UNCHANGED nextTodoID
             ELSE /\ todos' = [todos EXCEPT ![id] = MakeOneOff(todos[id])]
                  /\ Served("convertTodoRecurring", id, "ok", request, before)
                  /\ UNCHANGED <<recurringDefs, nextTodoID, nextRecurringID, clock>>

\* The definition createRecurringDef stores: ID and CreatedAt are assigned.
NewDef(body, t) ==
    [title |-> body.title, description |-> body.description,
     assignedTo |-> body.assignedTo, pattern |-> body.pattern,
     startDate |-> body.startDate, createdAt |-> t]

\* The first instance createRecurringDef materializes.
FirstInstance(def, defID, nextDueDate, count, t) ==
    [title |-> def.title, description |-> def.description,
     assignedTo |-> def.assignedTo, completed |-> FALSE, position |-> count,
     isRecurring |-> TRUE, recurrenceId |-> defID, dueDate |-> nextDueDate,
     completedAt |-> Nil, createdAt |-> t]

\* A createRecurringDef that takes the next id before it validates the body.
createRecurringDefEarlyID(bodies, horizon) ==
    \E body \in bodies :
        /\ nextRecurringID <= MaxRecurringID
        /\ nextRecurringID' = nextRecurringID + 1
        /\ IF ~validateRecurringDefinition(body)
           THEN /\ Served("createRecurringDef", 0, "invalid", body, NoBody)
                /\ UNCHANGED <<todos, recurringDefs, nextTodoID, clock>>
           ELSE \E t2 \in clock..horizon : \E t3 \in t2..horizon :
                  LET def == NewDef(body, clock)
                      nextDueDate == calculateNextDueDate(def.startDate, def.pattern, t2)
                  IN  /\ nextTodoID <= MaxTodoID
                      /\ recurringDefs' = Put(recurringDefs, nextRecurringID, def)
                      /\ todos' = Put(todos, nextTodoID,
                                      FirstInstance(def, nextRecurringID, nextDueDate,
                                                    Cardinality(DOMAIN todos), t3))
                      /\ nextTodoID' = nextTodoID + 1
                      /\ clock' = t3
                      /\ Served("createRecurringDef", nextRecurringID, "ok", body, NoBody)

createRecurringDef(bodies, horizon) ==
    \E body \in bodies :
        IF ~validateRecurringDefinition(body)
        THEN Reject("createRecurringDef", 0, "invalid", body)
        ELSE \E t2 \in clock..horizon : \E t3 \in t2..horizon :
               \* the three reads of time.Now(): def.CreatedAt, the engine's, todo.CreatedAt
               LET def == NewDef(body, clock)
                   nextDueDate == calculateNextDueDate(def.startDate, def.pattern, t2)
               IN  /\ nextRecurringID <= MaxRecurringID
                   /\ nextTodoID <= MaxTodoID
                   /\ recurringDefs' = Put(recurringDefs, nextRecurringID, def)
                   /\ nextRecurringID' = nextRecurringID + 1
                   /\ todos' = Put(todos, nextTodoID,
                                   FirstInstance(def, nextRecurringID, nextDueDate,
                                                 Cardinality(DOMAIN todos), t3))
                   /\ nextTodoID' = nextTodoID + 1
                   /\ clock' = t3
                   /\ Served("createRecurringDef", nextRecurringID, "ok", body, NoBody)

\* An overwrite that takes the body's startDate as well.
OverwriteDefWithStartDate(def, updates) ==
    [def EXCEPT !.title = updates.title, !.description = updates.description,
                !.assignedTo = updates.assignedTo, !.pattern = updates.pattern,
                !.startDate = updates.startDate]

\* def.Title = updates.Title ... def.Pattern = updates.Pattern
OverwriteDef(def, updates) ==
    [def EXCEPT !.title = updates.title, !.description = updates.description,
                !.assignedTo = updates.assignedTo, !.pattern = updates.pattern]

\* A propagation loop whose condition lacks "&& !todo.Completed".
PropagateToCompleted(todo, id, def) ==
    IF todo.recurrenceId # Nil /\ todo.recurrenceId = id
    THEN [todo EXCEPT !.title = def.title, !.description = def.description,
                      !.assignedTo = def.assignedTo]
    ELSE todo

\* The body of the propagation loop of updateRecurringDef, for one todo.
Propagate(todo, id, def) ==
    IF todo.recurrenceId # Nil /\ todo.recurrenceId = id /\ ~todo.completed
    THEN [todo EXCEPT !.title = def.title, !.description = def.description,
                      !.assignedTo = def.assignedTo]
    ELSE todo

updateRecurringDef(ids, bodies) ==
    \E id \in ids, updates \in bodies :
        IF ~validateRecurringDefinition(updates)
        THEN Reject("updateRecurringDef", id, "invalid", updates)
        ELSE IF id \notin DOMAIN recurringDefs
        THEN Reject("updateRecurringDef", id, "notfound", updates)
        ELSE LET def == OverwriteDef(recurringDefs[id], updates)
             IN  /\ recurringDefs' = [recurringDefs EXCEPT ![id] = def]
                 /\ todos' = [t \in DOMAIN todos |-> Propagate(todos[t], id, def)]
                 /\ Served("updateRecurringDef", id, "ok", updates, NoBody)
                 /\ UNCHANGED <<nextTodoID, nextRecurringID, clock>>

\* An unlink loop that carries the propagation loop's "&& !todo.Completed".
UnlinkIncomplete(todo, id) ==
    IF todo.recurrenceId # Nil /\ todo.recurrenceId = id /\ ~todo.completed
    THEN [todo EXCEPT !.recurrenceId = Nil, !.isRecurring = FALSE]
    ELSE todo

\* The body of the unlink loop of deleteRecurringDef, for one todo.
Unlink(todo, id) ==
    IF todo.recurrenceId # Nil /\ todo.recurrenceId = id
    THEN [todo EXCEPT !.recurrenceId = Nil, !.isRecurring = FALSE]
    ELSE todo

\* A deleteRecurringDef that deletes the linked todos with the definition.
deleteRecurringDefCascade(ids) ==
    \E id \in ids :
        IF id \notin DOMAIN recurringDefs
        THEN Reject("deleteRecurringDef", id, "notfound", NoBody)
        ELSE /\ recurringDefs' = Remove(recurringDefs, id)
             /\ todos' = [t \in DOMAIN todos \ LinkedTo(todos, id) |-> todos[t]]
             /\ Served("deleteRecurringDef", id, "ok", NoBody, LinkedTo(todos, id))
             /\ UNCHANGED <<nextTodoID, nextRecurringID, clock>>

deleteRecurringDef(ids) ==
    \E id \in ids :
        IF id \notin DOMAIN recurringDefs
        THEN Reject("deleteRecurringDef", id, "notfound", NoBody)
        ELSE /\ recurringDefs' = Remove(recurringDefs, id)
             /\ todos' = [t \in DOMAIN todos |-> Unlink(todos[t], id)]
             /\ Served("deleteRecurringDef", id, "ok", NoBody, LinkedTo(todos, id))
             /\ UNCHANGED <<nextTodoID, nextRecurringID, clock>>

(***************************************************************************)
(* Spec: the store under well-formed requests that address existing        *)
(* entities.  Bodies vary in content, completion and the recurrence link,  *)
(* and all are served at one instant (the clock stands still).             *)
(***************************************************************************)
Next ==
    \/ createTodo(TodoBodies)
    \/ updateTodo(DOMAIN todos, UpdateBodies)
    \/ deleteTodo(DOMAIN todos)
    \/ reorderTodos(SingleOrders)
    \/ convertTodoRecurring(DOMAIN todos, ConvertRequests, clock)
    \/ createRecurringDef(DefBodies, clock)
    \/ updateRecurringDef(DOMAIN recurringDefs, DefUpdateBodies)
    \/ deleteRecurringDef(DOMAIN recurringDefs)

Spec == Init /\ [][Next]_vars

(***************************************************************************)
(* SpecErr: the store under requests that may be malformed (empty title,   *)
(* bad frequency, interval or weekday) or address an id that is not there. *)
(* Well-formed bodies are few, so that every outcome is recorded.          *)
(***************************************************************************)
ContentA == [title |-> "a", description |-> "", assignedTo |-> << >>]

ErrTodoBodies == Bodies({ContentA} \cup BadContents, {BaseShape})

ErrUpdateBodies ==
    Bodies({ContentA} \cup BadContents, {[BaseShape EXCEPT !.completed = TRUE]})

\* A daily pattern that carries a weekday list.
DailyWithDays == [frequency |-> "daily", interval |-> 1, daysOfWeek |-> <<"Funday">>]

ErrDefBodies ==
    { DefBody(c, p, 0) : c \in {ContentA} \cup BadContents,
                         p \in {DailyPattern, DailyWithDays} \cup BadPatterns }

ErrConvertRequests ==
    { [toRecurring |-> TRUE, pattern |-> p] :
          p \in {DailyPattern, DailyWithDays} \cup BadPatterns }
    \cup { [toRecurring |-> FALSE, pattern |-> NoPattern] }

NextErr ==
    \/ createTodo(ErrTodoBodies)
    \/ updateTodo(TodoIDs, ErrUpdateBodies)
    \/ deleteTodo(TodoIDs)
    \/ reorderTodos(Orders)
    \/ convertTodoRecurring(TodoIDs, ErrConvertRequests, clock)
    \/ createRecurringDef(ErrDefBodies, clock)
    \/ updateRecurringDef(RecurringIDs, ErrDefBodies)
    \/ deleteRecurringDef(RecurringIDs)

SpecErr == Init /\ [][NextErr]_vars

(***************************************************************************)
(* SpecTime: the store while time passes between requests.                 *)
(***************************************************************************)
TimeTodoBodies ==
    Bodies({ContentA},
           { BaseShape,
             [BaseShape EXCEPT !.completed = TRUE],
             [BaseShape EXCEPT !.completedAt = 0] })

TimeUpdateBodies == Bodies({ContentA}, UpdateShapes)

TimeDefBodies == { DefBody(ContentA, DailyPattern, 0) }

NextTime ==
    \/ Tick
    \/ createTodo(TimeTodoBodies)
    \/ updateTodo(DOMAIN todos, TimeUpdateBodies)
    \/ deleteTodo(DOMAIN todos)
    \/ reorderTodos(SingleOrders)
    \/ convertTodoRecurring(DOMAIN todos, ConvertRequests, clock)
    \/ createRecurringDef(TimeDefBodies, clock)
    \/ updateRecurringDef(DOMAIN recurringDefs, TimeDefBodies)
    \/ deleteRecurringDef(DOMAIN recurringDefs)

SpecTime == Init /\ [][NextTime]_vars

(***************************************************************************)
(* SpecConc: NumProcs requests served by concurrent goroutines.  A handler *)
(* is a sequence of steps: it takes store.mu, performs its writes one at a *)
(* time and releases the lock when it returns (defer).  The range loops    *)
(* over store.todos visit the todos in any order.                          *)
(***************************************************************************)
ContentB == [title |-> "b", description |-> "d", assignedTo |-> <<"alice">>]

ConcRequests ==
    { [op |-> "getTodos", id |-> 0, body |-> NoBody, status |-> "none"],
      [op |-> "getRecurringDefs", id |-> 0, body |-> NoBody, status |-> "none"],
      [op |-> "createRecurringDef", id |-> 0,
       body |-> DefBody(ContentA, DailyPattern, 0), status |-> "none"],
      [op |-> "updateRecurringDef", id |-> 1,
       body |-> DefBody(ContentA, MonthlyPattern, 0), status |-> "none"],
      [op |-> "updateRecurringDef", id |-> 1,
       body |-> DefBody(ContentB, DailyPattern, 0), status |-> "none"],
      [op |-> "deleteRecurringDef", id |-> 1, body |-> NoBody, status |-> "none"] }

Readers == {"getTodos", "getRecurringDefs"}

\* store.mu.RLock() returns without waiting.
CanRLockNoWait(m) == TRUE

\* store.mu.RLock() returns when no writer holds the lock.
CanRLock(m) == m.writer = 0

\* store.mu.Lock() returns without waiting.
CanLockNoWait(m) == TRUE

\* store.mu.Lock() returns when neither a writer nor a reader holds the lock.
CanLock(m) == m.writer = 0 /\ m.readers = {}

Goto(p, label) == pc' = [pc EXCEPT ![p] = label]

Answer(p, status) == req' = [req EXCEPT ![p].status = status]

\* A request arrives; the handler decodes and validates it before it locks.
Receive(p) ==
    /\ pc[p] = "idle"
    /\ \E r \in ConcRequests :
         /\ r.op = "createRecurringDef" =>
                LET creating == Cardinality({q \in Procs : req[q].op = r.op})
                IN  creating < MaxRecurringID /\ creating < MaxTodoID
         /\ IF r.op \in {"createRecurringDef", "updateRecurringDef"}
               /\ ~validateRecurringDefinition(r.body)
            THEN /\ req' = [req EXCEPT ![p] = [r EXCEPT !.status = "invalid"]]
                 /\ Goto(p, "done")
            ELSE /\ req' = [req EXCEPT ![p] = r]
                 /\ Goto(p, IF r.op \in Readers THEN "rlock" ELSE "lock")
    /\ UNCHANGED <<storeVars, clock, last, calc, auth, ui, mu, iter, order>>

\* store.mu.RLock()
RLock(p) ==
    /\ pc[p] = "rlock"
    /\ CanRLock(mu)
    /\ mu' = [mu EXCEPT !.readers = @ \cup {p}]
    /\ Goto(p, "reading")
    /\ UNCHANGED <<storeVars, clock, last, calc, auth, ui, req, iter, order>>

\* The reader copies the map and encodes it, then the deferred RUnlock runs.
Read(p) ==
    /\ pc[p] = "reading"
    /\ mu' = [mu EXCEPT !.readers = @ \ {p}]
    /\ Answer(p, "ok")
    /\ Goto(p, "done")
    /\ UNCHANGED <<storeVars, clock, last, calc, auth, ui, iter, order>>

\* store.mu.Lock()
Lock(p) ==
    /\ pc[p] = "lock"
    /\ CanLock(mu)
    /\ mu' = [mu EXCEPT !.writer = p]
    /\ order' = Append(order, p)
    /\ Goto(p, IF req[p].op = "createRecurringDef" THEN "insertDef" ELSE "lookup")
    /\ UNCHANGED <<storeVars, clock, last, calc, auth, ui, req, iter>>

\* createRecurringDef: the definition gets its id and enters the map.
InsertDef(p) ==
    /\ pc[p] = "insertDef"
    /\ recurringDefs' = Put(recurringDefs, nextRecurringID, NewDef(req[p].body, clock))
    /\ nextRecurringID' = nextRecurringID + 1
    /\ req' = [req EXCEPT ![p].id = nextRecurringID]
    /\ Goto(p, "insertTodo")
    /\ UNCHANGED <<todos, nextTodoID, clock, last, calc, auth, ui, mu, iter, order>>

\* createRecurringDef: the first instance enters the map.
InsertTodo(p) ==
    /\ pc[p] = "insertTodo"
    /\ LET def == NewDef(req[p].body, clock)
           nextDueDate == calculateNextDueDate(def.startDate, def.pattern, clock)
       IN  todos' = Put(todos, nextTodoID,
                        FirstInstance(def, req[p].id, nextDueDate,
                                      Cardinality(DOMAIN todos), clock))
    /\ nextTodoID' = nextTodoID + 1
    /\ Answer(p, "ok")
    /\ Goto(p, "unlock")
    /\ UNCHANGED <<recurringDefs, nextRecurringID, clock, last, calc, auth, ui, mu, iter, order>>

\* updateRecurringDef, deleteRecurringDef: the id is not in the map.
DefNotFound(p) ==
    /\ pc[p] = "lookup"
    /\ req[p].id \notin DOMAIN recurringDefs
    /\ Answer(p, "notfound")
    /\ Goto(p, "unlock")
    /\ UNCHANGED <<storeVars, clock, last, calc, auth, ui, mu, iter, order>>

\* updateRecurringDef: the four fields of the definition are overwritten.
WriteDef(p) ==
    /\ pc[p] = "lookup"
    /\ req[p].op = "updateRecurringDef"
    /\ req[p].id \in DOMAIN recurringDefs
    /\ recurringDefs' =
           [recurringDefs EXCEPT ![req[p].id] = OverwriteDef(@, req[p].body)]
    /\ iter' = [iter EXCEPT ![p] = DOMAIN todos]
    /\ Goto(p, "propagate")
    /\ UNCHANGED <<todos, nextTodoID, nextRecurringID, clock, last, calc, auth, ui, mu, req, order>>

\* The definition the handler's pointer def refers to: the object outlives
\* its map entry and carries the fields this handler wrote.
DefOf(p) ==
    IF req[p].id \in DOMAIN recurringDefs
    THEN recurringDefs[req[p].id]
    ELSE req[p].body

\* updateRecurringDef: one iteration of the propagation loop.
PropagateStep(p) ==
    /\ pc[p] = "propagate"
    /\ \E t \in iter[p] :
         /\ todos' = [todos EXCEPT ![t] = Propagate(@, req[p].id, DefOf(p))]
         /\ iter' = [iter EXCEPT ![p] = @ \ {t}]
    /\ UNCHANGED <<recurringDefs, nextTodoID, nextRecurringID, clock, last, calc, auth, ui, mu,
                   pc, req, order>>

\* deleteRecurringDef: the definition leaves the map.
RemoveDef(p) ==
    /\ pc[p] = "lookup"
    /\ req[p].op = "deleteRecurringDef"
    /\ req[p].id \in DOMAIN recurringDefs
    /\ recurringDefs' = Remove(recurringDefs, req[p].id)
    /\ iter' = [iter EXCEPT ![p] = DOMAIN todos]
    /\ Goto(p, "unlink")
    /\ UNCHANGED <<todos, nextTodoID, nextRecurringID, clock, last, calc, auth, ui, mu, req, order>>

\* deleteRecurringDef: one iteration of the unlink loop.
UnlinkStep(p) ==
    /\ pc[p] = "unlink"
    /\ \E t \in iter[p] :
         /\ todos' = [todos EXCEPT ![t] = Unlink(@, req[p].id)]
         /\ iter' = [iter EXCEPT ![p] = @ \ {t}]
    /\ UNCHANGED <<recurringDefs, nextTodoID, nextRecurringID, clock, last, calc, auth, ui, mu,
                   pc, req, order>>

\* The loop is over: the handler answers.
LoopDone(p) ==
    /\ pc[p] \in {"propagate", "unlink"}
    /\ iter[p] = {}
    /\ Answer(p, "ok")
    /\ Goto(p, "unlock")
    /\ UNCHANGED <<storeVars, clock, last, calc, auth, ui, mu, iter, order>>

\* The deferred store.mu.Unlock() runs as the handler returns.
Unlock(p) ==
    /\ pc[p] = "unlock"
    /\ mu' = [mu EXCEPT !.writer = 0]
    /\ Goto(p, "done")
    /\ UNCHANGED <<storeVars, clock, last, calc, auth, ui, req, iter, order>>

NextConc ==
    \/ \E p \in Procs : Receive(p)
    \/ \E p \in Procs : RLock(p)
    \/ \E p \in Procs : Read(p)
    \/ \E p \in Procs : Lock(p)
    \/ \E p \in Procs : InsertDef(p)
    \/ \E p \in Procs : InsertTodo(p)
    \/ \E p \in Procs : DefNotFound(p)
    \/ \E p \in Procs : WriteDef(p)
    \/ \E p \in Procs : PropagateStep(p)
    \/ \E p \in Procs : RemoveDef(p)
    \/ \E p \in Procs : UnlinkStep(p)
    \/ \E p \in Procs : LoopDone(p)
    \/ \E p \in Procs : Unlock(p)

SpecConc == Init /\ [][NextConc]_vars

(***************************************************************************)
(* SpecClock: time passes between requests and between the reads of        *)
(* time.Now() inside one handler.                                          *)
(***************************************************************************)
WeeklyPattern == [frequency |-> "weekly", interval |-> 1, daysOfWeek |-> << >>]

ClockTodoBodies == Bodies({ContentA}, {BaseShape})

ClockConvertRequests ==
    { [toRecurring |-> TRUE, pattern |-> p] :
          p \in {DailyPattern, WeeklyPattern, MonthlyPattern} }
    \cup { [toRecurring |-> FALSE, pattern |-> NoPattern] }

ClockDefBodies ==
    { DefBody(ContentA, p, sd) : p \in {DailyPattern, MonthlyPattern}, sd \in 0..MaxTime }

NextClock ==
    \/ Tick
    \/ createTodo(ClockTodoBodies)
    \/ convertTodoRecurring(DOMAIN todos, ClockConvertRequests, MaxTime)
    \/ createRecurringDef(ClockDefBodies, MaxTime)

SpecClock == Init /\ [][NextClock]_vars

(***************************************************************************)
(* SpecOrder: the list and its positions.  Drafts carry a position or      *)
(* none, and some carry an id and a createdAt of their own; reorder bodies *)
(* have up to MaxPairs pairs, with repeated and unknown ids.               *)
(***************************************************************************)
\* A decoded body whose "id" and "createdAt" fields are set as well.
Draft(body, id, createdAt) ==
    [f \in DOMAIN body \cup {"id", "createdAt"} |->
        IF f = "id" THEN id ELSE IF f = "createdAt" THEN createdAt ELSE body[f]]

ListPositions == 0..MaxSlot

ListTodoBodies ==
    { Draft(Body(ContentA, [BaseShape EXCEPT !.position = p]), d[1], d[2]) :
          p \in ListPositions, d \in {<<0, Nil>>, <<MaxTodoID + 1, MaxTime + 1>>} }

ListOrders ==
    SeqsUpTo({ [id |-> i, position |-> p] : i \in TodoIDs, p \in ListPositions }, MaxPairs)

NextOrder ==
    \/ createTodo(ListTodoBodies)
    \/ deleteTodo(DOMAIN todos)
    \/ reorderTodos(ListOrders)
    \/ createRecurringDef(TimeDefBodies, clock)
    \/ getTodos

SpecOrder == Init /\ [][NextOrder]_vars

(***************************************************************************)
(* SpecAuth: every request goes through authMiddleware before its handler. *)
(* An e-mail address is the sequence of its code points, so that the case  *)
(* of a letter is something the comparison can see; "a@x" stands for       *)
(* alice@example.com, "b@x" for bob@example.com, "c@x" for                 *)
(* charlie@example.com.  A token is what jwt.Parse finds in it: the        *)
(* signing method, the key that signed it, the email claim and exp.        *)
(***************************************************************************)
alice == <<97, 64, 120>>
bob == <<98, 64, 120>>
charlie == <<99, 64, 120>>

mockUsers ==
    << [email |-> alice, sub |-> "alice"],
       [email |-> bob, sub |-> "bob"],
       [email |-> charlie, sub |-> "charlie"] >>

\* initAuthConfig with no environment variable set.
authConfig ==
    [Mode |-> "dev", AllowedUsers |-> <<alice, bob>>, DevSecret |-> "generated"]

\* The case folding of strings.EqualFold, as far as ASCII letters go.
fold(c) == IF c \in 65..90 THEN c + 32 ELSE c

\* A comparison that tells upper case from lower case.
EqualExact(s, t) == s = t

EqualFold(s, t) ==
    /\ Len(s) = Len(t)
    /\ \A i \in 1..Len(s) : fold(s[i]) = fold(t[i])

isUserAllowed(email) ==
    \E i \in DOMAIN authConfig.AllowedUsers : EqualFold(email, authConfig.AllowedUsers[i])

\* validateDevToken: the signing method is HMAC, the signature verifies with
\* DevSecret, the token has not expired, and it has an email claim.
validateDevToken(token, now) ==
    IF token.alg # "HS256" THEN [err |-> TRUE, email |-> << >>]
    ELSE IF token.key # authConfig.DevSecret THEN [err |-> TRUE, email |-> << >>]
    ELSE IF ~(now < token.exp) THEN [err |-> TRUE, email |-> << >>]
    ELSE IF token.email = << >> THEN [err |-> TRUE, email |-> << >>]
    ELSE [err |-> FALSE, email |-> token.email]

\* What authMiddleware answers to an Authorization header, given as the
\* parts strings.Split(authHeader, " ") yields.
Authorize(parts, now) ==
    IF Len(parts) = 1 /\ parts[1] = ""
    THEN [status |-> "401", email |-> << >>]
    ELSE IF Len(parts) # 2 \/ parts[1] # "Bearer"
    THEN [status |-> "401", email |-> << >>]
    ELSE LET v == validateDevToken(parts[2], now)
         IN  IF v.err THEN [status |-> "401", email |-> << >>]
             ELSE IF ~isUserAllowed(v.email) THEN [status |-> "403", email |-> v.email]
             ELSE [status |-> "pass", email |-> v.email]

\* A request arrives: authMiddleware answers it with 401 or 403, or puts the
\* email in the context and calls the handler, which is the next step.
authMiddleware(headers) ==
    /\ auth.status \notin {"off", "pass"}
    /\ \E parts \in headers \cup (IF auth.token = NoToken THEN {} ELSE {<<"Bearer", auth.token>>}) :
          LET verdict == Authorize(parts, clock)
          IN  /\ auth' = [auth EXCEPT !.status = verdict.status, !.header = parts,
                                      !.email = verdict.email]
              /\ last' = IF verdict.status = "pass" THEN last
                         ELSE [op |-> "authMiddleware", id |-> 0, status |-> verdict.status,
                               body |-> NoBody, before |-> NoBody]
    /\ UNCHANGED <<storeVars, clock, concVars, calc, ui>>

\* POST /api/auth/dev/token: a token for the mock user named, or for the
\* first mock user, valid for 24 hours.
devToken(forms) ==
    /\ auth.status \notin {"off", "pass"}
    /\ \E form \in forms :
          IF form.grant_type # "authorization_code"
          THEN /\ last' = [op |-> "devToken", id |-> 0, status |-> "invalid",
                           body |-> form, before |-> NoBody]
               /\ UNCHANGED auth
          ELSE LET named == { i \in DOMAIN mockUsers : mockUsers[i].sub = form.username }
                   user == IF named = {} THEN mockUsers[1]
                           ELSE mockUsers[CHOOSE i \in named : TRUE]
               IN  /\ auth' = [auth EXCEPT !.token =
                                   [alg |-> "HS256", key |-> authConfig.DevSecret,
                                    email |-> user.email, exp |-> clock + TicksPerDay]]
                   /\ last' = [op |-> "devToken", id |-> 0, status |-> "ok",
                               body |-> form, before |-> NoBody]
    /\ UNCHANGED <<storeVars, clock, concVars, calc, ui>>

\* getRecurringDefs answers with the definitions in the order the map yields.
getRecurringDefs ==
    \E visit \in Iterations(recurringDefs) :
        /\ Served("getRecurringDefs", 0, "ok", visit, NoBody)
        /\ UNCHANGED <<storeVars, clock>>

Forms ==
    { [grant_type |-> "authorization_code", username |-> u] :
          u \in {"", "alice", "bob", "charlie", "mallory"} }
    \cup { [grant_type |-> "password", username |-> "alice"] }

Token(alg, key, email, exp) == [alg |-> alg, key |-> key, email |-> email, exp |-> exp]

\* Tokens nobody got from devToken: a foreign user's, an allowed user's in
\* upper case, and tokens that do not validate.
Tokens ==
    { Token("HS256", authConfig.DevSecret, <<109, 64, 120>>, MaxTime + 1),
      Token("HS256", authConfig.DevSecret, <<65, 64, 88>>, MaxTime + 1),
      Token("HS256", "forged", alice, MaxTime + 1),
      Token("none", authConfig.DevSecret, alice, MaxTime + 1),
      Token("HS256", authConfig.DevSecret, alice, 0),
      Token("HS256", authConfig.DevSecret, << >>, MaxTime + 1) }

Headers ==
    { <<"">>, <<"Bearer">> }
    \cup { <<"Bearer", t>> : t \in Tokens }
    \cup LET t == Token("HS256", authConfig.DevSecret, alice, MaxTime + 1)
         IN  { <<"Basic", t>>, <<"bearer", t>>, <<"Bearer", t, "x">> }

AuthTodoBodies == Bodies({ContentA}, {BaseShape})

AuthInit ==
    /\ EmptyStore
    /\ calc = NoCalc
    /\ auth = [NoAuth EXCEPT !.status = "idle"]
    /\ ui = NoUI

NextAuth ==
    \/ devToken(Forms)
    \/ authMiddleware(Headers)
    \/ getTodos
    \/ createTodo(AuthTodoBodies)
    \/ updateTodo(DOMAIN todos, AuthTodoBodies)
    \/ deleteTodo(DOMAIN todos)
    \/ reorderTodos(SingleOrders)
    \/ convertTodoRecurring(DOMAIN todos, ConvertRequests, clock)
    \/ getRecurringDefs
    \/ createRecurringDef(TimeDefBodies, clock)
    \/ updateRecurringDef(DOMAIN recurringDefs, TimeDefBodies)
    \/ deleteRecurringDef(DOMAIN recurringDefs)

SpecAuth == AuthInit /\ [][NextAuth]_vars

(***************************************************************************)
(* SpecFilter: the list the React component App displays.  ui holds the    *)
(* component's todos and filterState, the current day, and the list        *)
(* rendered; a due date is the number of its day.                          *)
(***************************************************************************)
getDateCategory(dueDate, today) ==
    IF dueDate = Nil THEN "none"
    ELSE LET diffDays == dueDate - today
         IN  IF diffDays < 0 THEN "overdue"
             ELSE IF diffDays = 0 THEN "today"
             ELSE IF diffDays = 1 THEN "tomorrow"
             ELSE "future"

includes(list, x) == \E k \in DOMAIN list : list[k] = x

\* A filter callback without "if (category === 'none') return false".
keepTodoWithoutDate(todo, filterState, today) ==
    /\ filterState.assignedToUser # "" => includes(todo.assignedTo, filterState.assignedToUser)
    /\ ~(~filterState.showUnassigned /\ Len(todo.assignedTo) = 0)
    /\ LET f == filterState.dueDateFilters
           category == getDateCategory(todo.dueDate, today)
       IN  (f.overdue \/ f.today \/ f.tomorrow \/ f.future) =>
              \/ category = "none"
              \/ f.overdue /\ category = "overdue"
              \/ f.today /\ category = "today"
              \/ f.tomorrow /\ category = "tomorrow"
              \/ f.future /\ category = "future"

\* The callback of todos.filter in getFilteredTodos.
keepTodo(todo, filterState, today) ==
    /\ filterState.assignedToUser # "" => includes(todo.assignedTo, filterState.assignedToUser)
    /\ ~(~filterState.showUnassigned /\ Len(todo.assignedTo) = 0)
    /\ LET f == filterState.dueDateFilters
           category == getDateCategory(todo.dueDate, today)
       IN  (f.overdue \/ f.today \/ f.tomorrow \/ f.future) =>
              /\ category # "none"
              /\ \/ f.overdue /\ category = "overdue"
                 \/ f.today /\ category = "today"
                 \/ f.tomorrow /\ category = "tomorrow"
                 \/ f.future /\ category = "future"

getFilteredTodos(list, filterState, today) ==
    SelectSeq(list, LAMBDA todo : keepTodo(todo, filterState, today))

FilterStates ==
    [assignedToUser : {"", "alice"}, showUnassigned : BOOLEAN,
     dueDateFilters : [overdue : BOOLEAN, today : BOOLEAN,
                       tomorrow : BOOLEAN, future : BOOLEAN]]

DueDays == {Nil} \cup (Today - 1)..(Today + 2)

Assignees == { << >>, <<"alice">>, <<"bob">>, <<"bob", "alice">> }

\* The lists of todos the component may hold: the todo at index i has id i.
TodoLists ==
    UNION { [1..n -> [assignedTo : Assignees, dueDate : DueDays]] : n \in 0..MaxListed }

FilterInit ==
    /\ EmptyStore
    /\ calc = NoCalc
    /\ auth = NoAuth
    /\ ui \in [todos : TodoLists, filterState : FilterStates, today : {Today},
                rendered : {FALSE}, shown : {<< >>}]

\* The component renders getFilteredTodos().
render ==
    /\ ~ui.rendered
    /\ ui' = [ui EXCEPT !.rendered = TRUE,
                        !.shown = getFilteredTodos(
                                      [i \in DOMAIN ui.todos |->
                                          [id |-> i, assignedTo |-> ui.todos[i].assignedTo,
                                           dueDate |-> ui.todos[i].dueDate]],
                                      ui.filterState, ui.today)]
    /\ UNCHANGED <<storeVars, clock, last, concVars, calc, auth>>

NextFilter == render

SpecFilter == FilterInit /\ [][NextFilter]_vars

(***************************************************************************)
(* SpecDrag: the user drops a dragged row of the displayed list.  The rows *)
(* are getFilteredTodos(), each a Draggable whose index is its index in    *)
(* that list; indices count from 0 as in the component.                    *)
(***************************************************************************)
\* items.splice(index, 1): the list without the element at index, if any.
spliceOut(items, index) ==
    IF index + 1 \in DOMAIN items
    THEN SubSeq(items, 1, index) \o SubSeq(items, index + 2, Len(items))
    ELSE items

\* items.splice(index, 0, item): item inserted before the element at index.
spliceIn(items, index, item) ==
    LET at == IF index > Len(items) THEN Len(items) ELSE index
    IN  SubSeq(items, 1, at) \o <<item>> \o SubSeq(items, at + 1, Len(items))

DragLists ==
    UNION { { [i \in 1..n |-> [id |-> i, assignedTo |-> a[i], dueDate |-> Nil]] :
                a \in [1..n -> { << >>, <<"alice">> }] } : n \in 0..MaxDragged }

DragFilterStates ==
    { f \in FilterStates :
          f.dueDateFilters = [overdue |-> FALSE, today |-> FALSE,
                              tomorrow |-> FALSE, future |-> FALSE] }

NoResult == [source |-> Nil, destination |-> Nil, draggableId |-> Nil]

DragInit ==
    /\ EmptyStore
    /\ calc = NoCalc
    /\ auth = NoAuth
    /\ ui \in [todos : DragLists, filterState : DragFilterStates, today : {Today},
                result : {NoResult}, before : {<< >>}, reorderData : {<< >>}]

\* What the drag-and-drop library reports when a row is dropped: the index
\* of the row in the displayed list, the id of its todo, and the index it
\* was dropped at, or no destination when it was dropped outside the list.
DropResults(rows) ==
    { [source |-> s - 1, destination |-> d, draggableId |-> rows[s].id] :
          s \in DOMAIN rows, d \in {Nil} \cup { k - 1 : k \in DOMAIN rows } }

handleDragEnd ==
    /\ ui.result = NoResult
    /\ \E result \in DropResults(getFilteredTodos(ui.todos, ui.filterState, ui.today)) :
          IF result.destination = Nil
          THEN ui' = [ui EXCEPT !.result = result, !.before = ui.todos]
          ELSE LET reorderedItem == ui.todos[result.source + 1]
                   items == spliceIn(spliceOut(ui.todos, result.source),
                                     result.destination, reorderedItem)
               IN  ui' = [ui EXCEPT !.result = result, !.before = ui.todos,
                                    !.todos = items,
                                    !.reorderData =
                                        [k \in DOMAIN items |->
                                            [id |-> items[k].id, position |-> k - 1]]]
    /\ UNCHANGED <<storeVars, clock, last, concVars, calc, auth>>

NextDrag == handleDragEnd

SpecDrag == DragInit /\ [][NextDrag]_vars

(***************************************************************************)
(* SpecBlur: inline editing of a todo's assignees.  A callback sees the    *)
(* state of the render that created it: the timer armed by onBlur carries  *)
(* the inlineAssignees of the render in which the input lost the focus.    *)
(***************************************************************************)
AssigneeLists == SeqsUpTo({"alice", "bob"}, MaxAssignees - 1)

\* handleInlineEdit(todo, 'assignedTo'): the editor opens with the todo's
\* assignees and its input has the focus.
BlurInit ==
    /\ EmptyStore
    /\ calc = NoCalc
    /\ auth = NoAuth
    /\ ui \in [inlineAssignees : AssigneeLists, editing : {TRUE}, focused : {TRUE},
                armed : {FALSE}, captured : {<< >>}, removed : {FALSE},
                persisted : {FALSE}, saved : {<< >>}]

\* onKeyDown with Enter: setInlineAssignees([...inlineAssignees, input])
onKeyDown ==
    /\ ui.editing /\ ui.focused
    /\ Len(ui.inlineAssignees) < MaxAssignees
    /\ \E person \in {"alice", "bob"} :
          ui' = [ui EXCEPT !.inlineAssignees = Append(@, person)]
    /\ UNCHANGED <<storeVars, clock, last, concVars, calc, auth>>

\* onBlur: setTimeout(() => handleInlineEditSave(todo, 'assignedTo',
\* inlineAssignees), INLINE_EDIT_BLUR_DELAY)
onBlur ==
    /\ ui.editing /\ ui.focused
    /\ ui' = [ui EXCEPT !.focused = FALSE, !.armed = TRUE,
                        !.captured = ui.inlineAssignees]
    /\ UNCHANGED <<storeVars, clock, last, concVars, calc, auth>>

\* The click on a tag's remove button, which took the focus from the input:
\* setInlineAssignees(inlineAssignees.filter((_, i) => i !== idx))
onClickRemove ==
    /\ ui.editing /\ ~ui.focused
    /\ \E idx \in DOMAIN ui.inlineAssignees :
          ui' = [ui EXCEPT !.inlineAssignees = spliceOut(@, idx - 1), !.removed = TRUE]
    /\ UNCHANGED <<storeVars, clock, last, concVars, calc, auth>>

\* The timer fires: handleInlineEditSave puts the todo with the assignees
\* the timer's callback was created with, and the editor closes.
handleInlineEditSave ==
    /\ ui.armed
    /\ ui' = [ui EXCEPT !.armed = FALSE, !.persisted = TRUE, !.saved = ui.captured,
                        !.editing = FALSE]
    /\ UNCHANGED <<storeVars, clock, last, concVars, calc, auth>>

NextBlur ==
    \/ onKeyDown
    \/ onBlur
    \/ onClickRemove
    \/ handleInlineEditSave

SpecBlur == BlurInit /\ [][NextBlur]_vars

(***************************************************************************)
(* SpecLive: createRecurringDef with its date-advancing loop run step by   *)
(* step while the handler holds store.mu, next to readers.  A time.Time    *)
(* has a fixed width: an instant is a word of TimeBits bits that counts    *)
(* ticks, as a Go instant is a 64-bit count of seconds, and adding days    *)
(* wraps around.  A day is TicksPerDay ticks, a power of two times an odd  *)
(* number as 86400 is, so that adding 2^(TimeBits-1) days adds nothing.    *)
(***************************************************************************)
WrapTicks == 2 ^ TimeBits

\* The value of a word read as a signed number, which Before compares.
Signed(t) == IF t >= WrapTicks \div 2 THEN t - WrapTicks ELSE t

Before(a, b) == Signed(a) < Signed(b)

\* t.AddDate(0, 0, days) in words of TimeBits bits.
AddDays(t, days) == (t + days * TicksPerDay) % WrapTicks

\* One pass through the body of "for nextDate.Before(now)".
AdvanceStepOf(nextDate, pattern) ==
    IF pattern.frequency = "daily" THEN AddDays(nextDate, pattern.interval)
    ELSE IF pattern.frequency = "weekly" THEN AddDays(nextDate, 7 * pattern.interval)
    ELSE nextDate

Yesterday == WrapTicks - TicksPerDay

LiveIntervals == {1, 3, WrapTicks \div TicksPerDay}

LiveRequests ==
    { [op |-> "getTodos", id |-> 0, body |-> NoBody, status |-> "none"] }
    \cup { [op |-> "createRecurringDef", id |-> 0,
            body |-> DefBody(ContentA,
                             [frequency |-> f, interval |-> i, daysOfWeek |-> << >>], sd),
            status |-> "none"] :
               f \in {"daily", "weekly"}, i \in LiveIntervals, sd \in {0, Yesterday} }

\* A request arrives; the handler decodes and validates it before it locks.
LiveReceive(p) ==
    /\ pc[p] = "idle"
    /\ \E r \in LiveRequests :
         /\ r.op = "createRecurringDef" =>
                LET creating == Cardinality({q \in Procs : req[q].op = r.op})
                IN  creating < MaxRecurringID /\ creating < MaxTodoID
         /\ IF r.op = "createRecurringDef" /\ ~validateRecurringDefinition(r.body)
            THEN /\ req' = [req EXCEPT ![p] = [r EXCEPT !.status = "invalid"]]
                 /\ Goto(p, "done")
            ELSE /\ req' = [req EXCEPT ![p] = r]
                 /\ Goto(p, IF r.op \in Readers THEN "rlock" ELSE "lock")
    /\ UNCHANGED <<storeVars, clock, last, calc, auth, ui, mu, iter, order>>

\* createRecurringDef: the definition enters the map and the handler calls
\* calculateNextDueDate, which reads the clock and starts at startDate.
EnterLoop(p) ==
    /\ pc[p] = "insertDef"
    /\ recurringDefs' = Put(recurringDefs, nextRecurringID, NewDef(req[p].body, clock))
    /\ nextRecurringID' = nextRecurringID + 1
    /\ req' = [req EXCEPT ![p].id = nextRecurringID]
    /\ calc' = [startDate |-> req[p].body.startDate, pattern |-> req[p].body.pattern,
                now |-> clock, valid |-> "valid", result |-> req[p].body.startDate]
    /\ Goto(p, "advance")
    /\ UNCHANGED <<todos, nextTodoID, clock, last, auth, ui, mu, iter, order>>

\* The loop condition holds: nextDate is advanced once.
AdvanceStep(p) ==
    /\ pc[p] = "advance"
    /\ Before(calc.result, calc.now)
    /\ calc' = [calc EXCEPT !.result = AdvanceStepOf(@, calc.pattern)]
    /\ UNCHANGED <<storeVars, clock, last, auth, ui, concVars>>

\* The loop condition fails: the first instance enters the map with the
\* date the loop ended on.
ExitLoop(p) ==
    /\ pc[p] = "advance"
    /\ ~Before(calc.result, calc.now)
    /\ todos' = Put(todos, nextTodoID,
                    FirstInstance(NewDef(req[p].body, clock), req[p].id, calc.result,
                                  Cardinality(DOMAIN todos), clock))
    /\ nextTodoID' = nextTodoID + 1
    /\ Answer(p, "ok")
    /\ Goto(p, "unlock")
    /\ UNCHANGED <<recurringDefs, nextRecurringID, clock, last, calc, auth, ui, mu, iter, order>>

NextLive ==
    \/ \E p \in Procs : LiveReceive(p)
    \/ \E p \in Procs : RLock(p)
    \/ \E p \in Procs : Read(p)
    \/ \E p \in Procs : Lock(p)
    \/ \E p \in Procs : EnterLoop(p)
    \/ \E p \in Procs : AdvanceStep(p)
    \/ \E p \in Procs : ExitLoop(p)
    \/ \E p \in Procs : Unlock(p)

\* Every goroutine keeps running, and sync.RWMutex hands the lock to a
\* goroutine that keeps waiting for it.
LiveFairness ==
    \A p \in Procs :
        /\ WF_vars(Read(p) \/ EnterLoop(p) \/ AdvanceStep(p) \/ ExitLoop(p) \/ Unlock(p))
        /\ SF_vars(Lock(p))
        /\ SF_vars(RLock(p))

SpecLive == Init /\ [][NextLive]_vars /\ LiveFairness

(***************************************************************************)
(* SpecEngine: the validator and the recurrence engine as functions.  The  *)
(* arguments are drawn from the days around the end of January 2023 and   *)
(* of January of the leap year 2024, with patterns of every kind.          *)
(***************************************************************************)
Instants(days) == { d * TicksPerDay + k : d \in days, k \in 0..(TicksPerDay - 1) }

EngineInstants == Instants(EngineFirstDay..EngineLastDay)

LeapInstants == Instants({DayNumber(2024, 1, 31), DayNumber(2024, 2, 1)})

\* The pairs (startDate, now): both in 2023 or both in 2024.
EngineTimes ==
    (EngineInstants \X EngineInstants) \cup (LeapInstants \X LeapInstants)

Intervals == 1..MaxInterval

WeekdayLists ==
    { <<"Monday", "Wednesday">>, <<"Sunday">>, <<"Friday", "Saturday">>,
      <<"Tuesday", "Tuesday">> }

EnginePatterns ==
    { [frequency |-> f, interval |-> n, daysOfWeek |-> << >>] :
          f \in validFrequencies, n \in Intervals }
    \cup { [frequency |-> "weekly", interval |-> n, daysOfWeek |-> ds] :
               n \in Intervals, ds \in WeekdayLists }
    \cup { [frequency |-> f, interval |-> 1, daysOfWeek |-> <<"Funday">>] :
               f \in {"daily", "monthly"} }
    \cup { [frequency |-> "weekly", interval |-> 1, daysOfWeek |-> <<"Monday", "monday">>],
           [frequency |-> "Daily", interval |-> 1, daysOfWeek |-> << >>],
           [frequency |-> "monthly", interval |-> -1, daysOfWeek |-> << >>] }
    \cup BadPatterns

EngineInit ==
    /\ EmptyStore
    /\ auth = NoAuth
    /\ ui = NoUI
    /\ calc \in { [startDate |-> t[1], pattern |-> p, now |-> t[2],
                   valid |-> "unchecked", result |-> Nil] :
                      t \in EngineTimes, p \in EnginePatterns }

\* A handler validates the decoded pattern.
Validate ==
    /\ calc.valid = "unchecked"
    /\ calc' = [calc EXCEPT !.valid = IF validateRecurrencePattern(calc.pattern)
                                      THEN "valid" ELSE "invalid"]
    /\ UNCHANGED <<storeVars, clock, last, concVars, auth, ui>>

\* A handler calls the engine with a pattern that passed validation.
Calculate ==
    /\ calc.valid = "valid"
    /\ calc.result = Nil
    /\ calc' = [calc EXCEPT !.result =
                    calculateNextDueDate(calc.startDate, calc.pattern, calc.now)]
    /\ UNCHANGED <<storeVars, clock, last, concVars, auth, ui>>

NextEngine ==
    \/ Validate
    \/ Calculate

SpecEngine == EngineInit /\ [][NextEngine]_vars

(***************************************************************************)
(* Properties of the store.                                                *)
(***************************************************************************)
SameContent(a, b) ==
    /\ a.title = b.title
    /\ a.description = b.description
    /\ a.assignedTo = b.assignedTo

Answered(op) == last.op = op /\ last.status = "ok"

\* C1: in every reachable state, for every todo, isRecurring is true if and
\* only if recurrenceId is set.
C1_IsRecurringIffLinked ==
    \A t \in DOMAIN todos : todos[t].isRecurring <=> todos[t].recurrenceId # Nil

\* C2: in every reachable state, every todo whose recurrenceId is set refers
\* to a definition that is in the store.
C2_NoDanglingRecurrenceId ==
    \A t \in DOMAIN todos :
        todos[t].recurrenceId # Nil => todos[t].recurrenceId \in DOMAIN recurringDefs

\* C3: right after createRecurringDef assigned id d, exactly one todo has
\* recurrenceId = d; it has isRecurring = true and the definition's title,
\* description and assignedTo.
C3_CreateDefinitionOneInstance ==
    Answered("createRecurringDef") =>
        LET d == last.id
        IN  /\ d \in DOMAIN recurringDefs
            /\ Cardinality(LinkedTo(todos, d)) = 1
            /\ \A t \in LinkedTo(todos, d) :
                   todos[t].isRecurring /\ SameContent(todos[t], recurringDefs[d])

\* C5: a step of deleteRecurringDef(d) that succeeds removes d, and every todo
\* that had recurrenceId = d, completed or not, ends with isRecurring = false
\* and recurrenceId = nil; no todo references d afterwards.
C5_DeleteDefinitionUnlinks ==
    [][ (last'.op = "deleteRecurringDef" /\ last'.status = "ok") =>
          LET d == last'.id
          IN  /\ d \in DOMAIN recurringDefs
              /\ d \notin DOMAIN recurringDefs'
              /\ \A t \in LinkedTo(todos, d) :
                     /\ t \in DOMAIN todos'
                     /\ ~todos'[t].isRecurring
                     /\ todos'[t].recurrenceId = Nil
              /\ LinkedTo(todos', d) = {} ]_vars

\* deleteRecurringDef has just unlinked two todos, one completed and one not.
C5_Witness ==
    /\ Answered("deleteRecurringDef")
    /\ \E t1 \in last.before, t2 \in last.before :
           /\ t1 \in DOMAIN todos /\ t2 \in DOMAIN todos
           /\ todos[t1].completed /\ ~todos[t2].completed
           /\ todos[t1].recurrenceId = Nil /\ todos[t2].recurrenceId = Nil

\* C6: a step of updateRecurringDef(d) that succeeds overwrites the
\* definition's title, description, assignedTo and pattern with the request's,
\* copies title, description and assignedTo onto every linked todo that is not
\* completed, and leaves those of every linked completed todo as they were.
C6_UpdateDefinitionPropagates ==
    [][ (last'.op = "updateRecurringDef" /\ last'.status = "ok") =>
          LET d == last'.id
              u == last'.body
          IN  /\ d \in DOMAIN recurringDefs'
              /\ SameContent(recurringDefs'[d], u)
              /\ recurringDefs'[d].pattern = u.pattern
              /\ \A t \in LinkedTo(todos, d) :
                     /\ t \in DOMAIN todos'
                     /\ IF todos[t].completed
                        THEN SameContent(todos'[t], todos[t])
                        ELSE SameContent(todos'[t], u) ]_vars

\* updateRecurringDef has just served a definition with a linked completed todo
\* that kept other content and a linked incomplete todo, under a new pattern.
C6_Witness ==
    /\ Answered("updateRecurringDef")
    /\ last.body.pattern = MonthlyPattern
    /\ \E t1 \in LinkedTo(todos, last.id), t2 \in LinkedTo(todos, last.id) :
           /\ todos[t1].completed /\ todos[t1].title # last.body.title
           /\ ~todos[t2].completed /\ todos[t2].title = last.body.title

\* C10: a step of convertTodoRecurring(toRecurring) on a one-off todo leaves
\* the number of todos as it was and adds exactly one definition; the todo
\* keeps its id, has isRecurring = true and recurrenceId = the new
\* definition's id, and the new definition copies the todo's title,
\* description and assignedTo.
C10_ConvertToRecurring ==
    [][ ( /\ last'.op = "convertTodoRecurring" /\ last'.status = "ok"
          /\ last'.body.toRecurring
          /\ ~last'.before.isRecurring /\ last'.before.recurrenceId = Nil ) =>
          LET id == last'.id
              d  == nextRecurringID
          IN  /\ DOMAIN todos' = DOMAIN todos
              /\ Cardinality(DOMAIN recurringDefs') = Cardinality(DOMAIN recurringDefs) + 1
              /\ DOMAIN recurringDefs' = DOMAIN recurringDefs \cup {d}
              /\ todos'[id].isRecurring
              /\ todos'[id].recurrenceId = d
              /\ SameContent(recurringDefs'[d], todos[id]) ]_vars

\* convertTodoRecurring has just made a one-off todo with assignees recurring,
\* next to another todo and another definition.
C10_Witness ==
    /\ Answered("convertTodoRecurring")
    /\ last.body.toRecurring
    /\ ~last.before.isRecurring /\ last.before.recurrenceId = Nil
    /\ todos[last.id].assignedTo # << >>
    /\ Cardinality(DOMAIN todos) = 2
    /\ Cardinality(DOMAIN recurringDefs) = 2

\* C7: completedAt is a one-way timestamp.  A step never changes or clears a
\* completedAt that is set; a step that moves completed from false to true
\* leaves completedAt set, to the instant of that updateTodo when it was unset.
C7_CompletedAtOneWay ==
    [][ \A t \in DOMAIN todos \cap DOMAIN todos' :
          /\ todos[t].completedAt # Nil =>
                 todos'[t].completedAt = todos[t].completedAt
          /\ (~todos[t].completed /\ todos'[t].completed) =>
                 /\ last'.op = "updateTodo" /\ last'.id = t
                 /\ todos'[t].completedAt # Nil
                 /\ todos[t].completedAt = Nil => todos'[t].completedAt = clock ]_vars

\* updateTodo has just completed a todo whose completedAt was stamped at an
\* earlier instant, and the stamp is still that instant.
C7_Witness ==
    /\ Answered("updateTodo")
    /\ last.body.completed
    /\ todos[last.id].completed
    /\ todos[last.id].completedAt # Nil
    /\ todos[last.id].completedAt < clock
    /\ todos[last.id].createdAt < todos[last.id].completedAt

\* C8: a request answered NotFound or with a validation error leaves the
\* store as it was: the two maps and the two id counters are unchanged.
C8_ErrorsLeaveStore ==
    [][ last'.status \in {"notfound", "invalid"} =>
          /\ todos' = todos
          /\ recurringDefs' = recurringDefs
          /\ nextTodoID' = nextTodoID
          /\ nextRecurringID' = nextRecurringID ]_vars

\* convertTodoRecurring has just rejected a weekly pattern with a bad weekday
\* for a todo that is in the store, after a definition was created.
C8_Witness ==
    /\ last.op = "convertTodoRecurring"
    /\ last.status = "invalid"
    /\ last.body.pattern.frequency = "weekly"
    /\ last.id \in DOMAIN todos
    /\ DOMAIN recurringDefs # {}

\* C4: a reader never observes an intermediate state of a multi-step write.
\* While a reader holds the lock, every definition in the store has its first
\* instance and no todo's recurrenceId names a definition that was removed.
C4_ReadersSeeWholeWrites ==
    \A p \in Procs :
        pc[p] = "reading" =>
            /\ \A d \in DOMAIN recurringDefs : LinkedTo(todos, d) # {}
            /\ \A t \in DOMAIN todos :
                   todos[t].recurrenceId # Nil =>
                       todos[t].recurrenceId \in DOMAIN recurringDefs

\* A reader holds the lock after a createRecurringDef and a
\* deleteRecurringDef that removed the definition and unlinked its instance.
C4_Witness ==
    /\ \E p \in Procs : pc[p] = "reading"
    /\ \E q \in Procs : req[q].op = "deleteRecurringDef" /\ req[q].status = "ok"
    /\ \E t \in DOMAIN todos : todos[t].recurrenceId = Nil

\* The position of request p in the order of write-lock acquisitions.
Pos(p) == CHOOSE i \in 1..Len(order) : order[i] = p

Updaters(d) ==
    { p \in Procs : req[p].op = "updateRecurringDef" /\ req[p].id = d }

CreatedBefore(d, U) ==
    \E c \in Procs :
        /\ req[c].op = "createRecurringDef" /\ req[c].id = d /\ pc[c] = "done"
        /\ \A u \in U : Pos(c) < Pos(u)

\* C9: when two or more updateRecurringDef requests on one definition have
\* run concurrently (all after its creation), all of them succeeded, and the
\* definition and its linked incomplete todos carry the title, description
\* and assignedTo of the one that took the lock last.
C9_LastWriterWins ==
    \A d \in DOMAIN recurringDefs :
        LET U == Updaters(d)
        IN  (/\ Cardinality(U) >= 2
             /\ \A u \in U : pc[u] = "done"
             /\ CreatedBefore(d, U)) =>
                LET w == CHOOSE u \in U : \A v \in U : Pos(v) <= Pos(u)
                IN  /\ \A u \in U : req[u].status = "ok"
                    /\ SameContent(recurringDefs[d], req[w].body)
                    /\ recurringDefs[d].pattern = req[w].body.pattern
                    /\ \A t \in LinkedTo(todos, d) :
                           ~todos[t].completed => SameContent(todos[t], req[w].body)

\* Two updateRecurringDef requests with different bodies on one definition
\* have both been answered ok.
C9_Witness ==
    \E u, v \in Procs :
        /\ u # v
        /\ req[u].op = "updateRecurringDef" /\ req[v].op = "updateRecurringDef"
        /\ req[u].id = req[v].id
        /\ req[u].body # req[v].body
        /\ req[u].status = "ok" /\ req[v].status = "ok"
        /\ pc[u] = "done" /\ pc[v] = "done"
        /\ LinkedTo(todos, req[u].id) # {}

\* C11: round trip.  When convert(toRecurring = false) follows
\* convert(toRecurring = true) on the same todo, the todo ends with
\* isRecurring = false, no recurrenceId and no dueDate, and the definition the
\* first step created is still in the store, unchanged.
C11_ConvertRoundTrip ==
    [][ (/\ last.op = "convertTodoRecurring" /\ last.status = "ok"
         /\ last.body.toRecurring
         /\ last'.op = "convertTodoRecurring" /\ last'.status = "ok"
         /\ ~last'.body.toRecurring
         /\ last'.id = last.id) =>
            LET d == todos[last.id].recurrenceId
            IN  /\ todos'[last.id].isRecurring = FALSE
                /\ todos'[last.id].recurrenceId = Nil
                /\ todos'[last.id].dueDate = Nil
                /\ d \in DOMAIN recurringDefs'
                /\ recurringDefs' = recurringDefs ]_vars

\* A todo has been converted back to one-off: the definition it was linked to
\* is in the store with the todo's content and no todo references it.
C11_Witness ==
    /\ Answered("convertTodoRecurring")
    /\ ~last.body.toRecurring
    /\ last.before.recurrenceId \in DOMAIN recurringDefs
    /\ LinkedTo(todos, last.before.recurrenceId) = {}
    /\ SameContent(recurringDefs[last.before.recurrenceId], todos[last.id])
    /\ todos[last.id].dueDate = Nil

\* C12: a conversion to recurring with a pattern that has no weekday
\* restriction sets the todo's dueDate to the new definition's startDate,
\* whatever time passes between the handler's reads of the clock.
C12_ConvertDueDateIsStartDate ==
    [][ (/\ last'.op = "convertTodoRecurring" /\ last'.status = "ok"
         /\ last'.body.toRecurring
         /\ Len(last'.body.pattern.daysOfWeek) = 0
         /\ nextRecurringID' = nextRecurringID + 1) =>
            todos'[last'.id].dueDate = recurringDefs'[nextRecurringID].startDate ]_vars

Calculated == calc.valid = "valid" /\ calc.result # Nil

WeekdayRestricted(pattern) ==
    pattern.frequency = "weekly" /\ Len(pattern.daysOfWeek) > 0

\* C13: for every pattern that passes validation and every anchor, the
\* next due date is never before now; for a weekly pattern with a non-empty
\* daysOfWeek it is strictly after now.
C13_DueDateNotBeforeNow ==
    Calculated =>
        /\ calc.result >= calc.now
        /\ WeekdayRestricted(calc.pattern) => calc.result > calc.now

\* The engine advanced an anchor that lay more than one interval before now.
C13_Witness ==
    /\ Calculated
    /\ ~WeekdayRestricted(calc.pattern)
    /\ calc.pattern.interval = 1
    /\ calc.startDate + 3 * TicksPerDay < calc.now
    /\ calc.result >= calc.now

\* The step of a daily or weekly pattern without weekdays, in ticks.
StepTicks(pattern) ==
    IF pattern.frequency = "daily"
    THEN pattern.interval * TicksPerDay
    ELSE 7 * pattern.interval * TicksPerDay

\* C14: for a daily pattern with interval n (and weekly without weekdays,
\* step 7n days) the result is the anchor when the anchor is not before now,
\* and otherwise anchor + k steps for the least k >= 1 that is not before now.
C14_DailyLeastMultiple ==
    (/\ Calculated
     /\ calc.pattern.frequency \in {"daily", "weekly"}
     /\ ~WeekdayRestricted(calc.pattern)) =>
        LET step == StepTicks(calc.pattern)
        IN  IF calc.startDate >= calc.now
            THEN calc.result = calc.startDate
            ELSE \E k \in 1..(calc.now - calc.startDate) :
                    /\ calc.result = calc.startDate + k * step
                    /\ calc.result >= calc.now
                    /\ calc.startDate + (k - 1) * step < calc.now

\* Daily, interval 3, anchor one day before now: the result is anchor + 3 days.
C14_Witness ==
    /\ Calculated
    /\ calc.pattern.frequency = "daily"
    /\ calc.pattern.interval = 3
    /\ calc.startDate = calc.now - TicksPerDay
    /\ calc.result = calc.startDate + 3 * TicksPerDay

\* The weekday name of the day of instant t; day 0 (2023-01-01) is a Sunday.
WeekdayName(t) ==
    <<"Sunday", "Monday", "Tuesday", "Wednesday", "Thursday", "Friday", "Saturday">>
        [((t \div TicksPerDay) % 7) + 1]

Names(daysOfWeek) == { daysOfWeek[i] : i \in DOMAIN daysOfWeek }

C17_MonthlyRollsOver ==
    (/\ Calculated
     /\ calc.pattern.frequency = "monthly"
     /\ calc.pattern.interval = 1
     /\ calc.now > calc.startDate) =>
        /\ (calc.startDate \div TicksPerDay = 30 /\ calc.now <= 61 * TicksPerDay) =>
               calc.result = 61 * TicksPerDay + (calc.startDate % TicksPerDay)
        /\ (calc.startDate \div TicksPerDay = 395 /\ calc.now <= 426 * TicksPerDay) =>
               calc.result = 426 * TicksPerDay + (calc.startDate % TicksPerDay)

\* The engine was evaluated for an anchor on January 31 of the leap year with
\* now just after it.
C17_Witness ==
    /\ Calculated
    /\ calc.pattern.frequency = "monthly"
    /\ calc.pattern.interval = 1
    /\ calc.startDate \div TicksPerDay = 395
    /\ calc.now = calc.startDate + 1
    /\ calc.result \div TicksPerDay = 426

\* C18: ids are never reused and the two counters are independent.  Every
\* stored id is below its counter, a step adds at most the id the counter
\* held and then advances the counter by one, createTodo advances only the
\* todo counter, a conversion to recurring only the definition counter,
\* createRecurringDef both by one, and no other request moves a counter.
C18_IdsNeverReused ==
    [][ /\ \A t \in DOMAIN todos : t < nextTodoID
        /\ \A d \in DOMAIN recurringDefs : d < nextRecurringID
        /\ DOMAIN todos' \ DOMAIN todos \subseteq {nextTodoID}
        /\ DOMAIN recurringDefs' \ DOMAIN recurringDefs \subseteq {nextRecurringID}
        /\ nextTodoID' =
               IF last'.status = "ok" /\ last'.op \in {"createTodo", "createRecurringDef"}
               THEN nextTodoID + 1 ELSE nextTodoID
        /\ nextRecurringID' =
               IF /\ last'.status = "ok"
                  /\ \/ last'.op = "createRecurringDef"
                     \/ last'.op = "convertTodoRecurring" /\ last'.body.toRecurring
               THEN nextRecurringID + 1 ELSE nextRecurringID
        /\ (last'.status = "ok" /\ last'.op = "createTodo") =>
               DOMAIN todos' = DOMAIN todos \cup {nextTodoID}
        /\ (last'.status = "ok" /\ last'.op = "createRecurringDef") =>
               /\ DOMAIN todos' = DOMAIN todos \cup {nextTodoID}
               /\ DOMAIN recurringDefs' = DOMAIN recurringDefs \cup {nextRecurringID} ]_vars

\* createTodo assigned id 2 after todo 1 was deleted, and a definition exists.
C18_Witness ==
    /\ Answered("createTodo")
    /\ last.id = 2
    /\ 1 \notin DOMAIN todos
    /\ nextRecurringID = 2

\* C19: the pattern validator accepts a pattern exactly when frequency is
\* daily, weekly or monthly, interval >= 1, and frequency is not weekly or
\* daysOfWeek is empty or all its entries are canonical weekday names; the
\* validation writes nothing to the store.
C19_ValidatorAcceptsIff ==
    [][ calc'.valid # calc.valid =>
          /\ calc'.valid = "valid" <=>
                /\ calc.pattern.frequency \in {"daily", "weekly", "monthly"}
                /\ calc.pattern.interval >= 1
                /\ \/ calc.pattern.frequency # "weekly"
                   \/ calc.pattern.daysOfWeek = << >>
                   \/ \A n \in Names(calc.pattern.daysOfWeek) :
                          n \in {"Sunday", "Monday", "Tuesday", "Wednesday",
                                 "Thursday", "Friday", "Saturday"}
          /\ UNCHANGED storeVars ]_vars

\* The validator accepted a daily pattern whose daysOfWeek holds a name that
\* is no weekday.
C19_Witness ==
    /\ calc.valid = "valid"
    /\ calc.pattern.frequency = "daily"
    /\ calc.pattern.daysOfWeek = <<"Funday">>

\* C20: every stored definition's pattern has interval >= 1, a frequency among
\* daily, weekly, monthly, and only valid weekday names in daysOfWeek, for
\* every frequency.
C20_StoredPatternsWellFormed ==
    \A d \in DOMAIN recurringDefs :
        /\ recurringDefs[d].pattern.interval >= 1
        /\ recurringDefs[d].pattern.frequency \in {"daily", "weekly", "monthly"}
        /\ \A n \in Names(recurringDefs[d].pattern.daysOfWeek) :
               n \in {"Sunday", "Monday", "Tuesday", "Wednesday",
                      "Thursday", "Friday", "Saturday"}

\* C21: every stored todo and every stored definition has a non-empty
\* title, also when requests with an empty title are sent.
C21_TitlesNonEmpty ==
    /\ \A t \in DOMAIN todos : todos[t].title # ""
    /\ \A d \in DOMAIN recurringDefs : recurringDefs[d].title # ""

\* A conversion has just seeded a definition from the todo's title, after a
\* createRecurringDef, and the store holds another todo as well.
C21_Witness ==
    /\ Answered("convertTodoRecurring")
    /\ last.body.toRecurring
    /\ todos[last.id].recurrenceId = 2
    /\ recurringDefs[2].title = todos[last.id].title
    /\ Cardinality(DOMAIN todos) = 2

\* C22: updateTodo overwrites title, description, assignedTo, completed and
\* dueDate with the values of the request; an update whose dueDate is absent
\* leaves the todo with no dueDate.
C22_UpdateTodoOverwrites ==
    [][ (last'.op = "updateTodo" /\ last'.status = "ok") =>
          /\ todos'[last'.id].title = last'.body.title
          /\ todos'[last'.id].description = last'.body.description
          /\ todos'[last'.id].assignedTo = last'.body.assignedTo
          /\ todos'[last'.id].completed = last'.body.completed
          /\ todos'[last'.id].dueDate = last'.body.dueDate ]_vars

\* C23: a todo created without a position, and the first instance created
\* by createRecurringDef, are placed at the end of the list: right after the
\* operation every other stored todo has a strictly smaller position.
C23_NewTodoIsLast ==
    [][ (/\ last'.status = "ok"
         /\ \/ last'.op = "createTodo" /\ last'.body.position = 0
            \/ last'.op = "createRecurringDef"
         /\ nextTodoID' = nextTodoID + 1) =>
            \A t \in DOMAIN todos' \ {nextTodoID} :
                todos'[t].position < todos'[nextTodoID].position ]_vars

\* C24: createTodo ignores the id and the createdAt of the draft (the id is
\* the next counter value, createdAt the server's clock), keeps a non-zero
\* position of the caller, replaces a zero position by the number of todos
\* stored before the insertion, and inserts exactly one todo.
C24_CreateTodoAssigns ==
    [][ (last'.op = "createTodo" /\ last'.status = "ok") =>
          /\ last'.id = nextTodoID
          /\ last'.id \notin DOMAIN todos
          /\ DOMAIN todos' = DOMAIN todos \cup {last'.id}
          /\ \A t \in DOMAIN todos : todos'[t] = todos[t]
          /\ todos'[last'.id].createdAt = clock
          /\ todos'[last'.id].position =
                 IF last'.body.position # 0 THEN last'.body.position
                 ELSE Cardinality(DOMAIN todos) ]_vars

C24_Witness ==
    /\ Answered("createTodo")
    /\ last.body.id = MaxTodoID + 1
    /\ last.body.createdAt = MaxTime + 1
    /\ last.body.position = MaxSlot
    /\ last.id = 2
    /\ todos[2].position = MaxSlot
    /\ todos[2].createdAt = 0
    /\ 1 \in DOMAIN todos

\* C25: reorder sets the position of every listed todo that exists to the
\* position of the last pair naming it, skips unknown ids without an error,
\* and changes nothing else.
C25_ReorderSetsPositions ==
    [][ last'.op = "reorderTodos" =>
          /\ last'.status = "ok"
          /\ DOMAIN todos' = DOMAIN todos
          /\ \A t \in DOMAIN todos :
                LET hits == { i \in DOMAIN last'.body : last'.body[i].id = t }
                IN  IF hits = {} THEN todos'[t] = todos[t]
                    ELSE \E i \in hits :
                            /\ \A k \in hits : k <= i
                            /\ todos'[t] =
                                 [todos[t] EXCEPT !.position = last'.body[i].position]
          /\ UNCHANGED <<recurringDefs, nextTodoID, nextRecurringID, clock>> ]_vars

C25_Witness ==
    /\ Answered("reorderTodos")
    /\ Len(last.body) = 2
    /\ last.body[1].id = 1
    /\ last.body[2].id = 1
    /\ last.body[1].position = 2
    /\ last.body[2].position = 1
    /\ DOMAIN todos = {1, 2}
    /\ todos[1].position = 1
    /\ todos[2].position = 2

\* C26: the list getTodos answers with holds every stored todo exactly once,
\* in non-decreasing order of position.
C26_ListSortedAndComplete ==
    last.op = "getTodos" =>
        /\ Len(last.body) = Cardinality(DOMAIN todos)
        /\ { last.body[i] : i \in DOMAIN last.body } = DOMAIN todos
        /\ \A i, j \in DOMAIN last.body :
               i < j => todos[last.body[i]].position <= todos[last.body[j]].position

C26_Witness ==
    /\ Answered("getTodos")
    /\ last.body = <<2, 1>>
    /\ todos[2].position < todos[1].position

\* C27: updateRecurringDef never changes a todo's dueDate (not even when
\* the pattern changes), completed, isRecurring, recurrenceId or position,
\* leaves the definition's id, startDate and createdAt as they were, and
\* leaves alone every todo that is not linked to the edited definition.
C27_UpdateDefinitionKeeps ==
    [][ (last'.op = "updateRecurringDef" /\ last'.status = "ok") =>
          /\ DOMAIN todos' = DOMAIN todos
          /\ \A t \in DOMAIN todos :
                /\ todos'[t].dueDate = todos[t].dueDate
                /\ todos'[t].completed = todos[t].completed
                /\ todos'[t].isRecurring = todos[t].isRecurring
                /\ todos'[t].recurrenceId = todos[t].recurrenceId
                /\ todos'[t].position = todos[t].position
                /\ todos[t].recurrenceId # last'.id => todos'[t] = todos[t]
          /\ DOMAIN recurringDefs' = DOMAIN recurringDefs
          /\ last'.id \in DOMAIN recurringDefs
          /\ recurringDefs'[last'.id].startDate = recurringDefs[last'.id].startDate
          /\ recurringDefs'[last'.id].createdAt = recurringDefs[last'.id].createdAt ]_vars

C27_Witness ==
    /\ Answered("updateRecurringDef")
    /\ last.body.pattern = MonthlyPattern
    /\ last.id = 1
    /\ recurringDefs[1].pattern = MonthlyPattern
    /\ recurringDefs[1].startDate # last.body.startDate
    /\ DOMAIN todos = {1, 2}
    /\ todos[1].recurrenceId = 1 /\ ~todos[1].completed
    /\ todos[1].dueDate # Nil
    /\ todos[1].title = last.body.title
    /\ todos[2].recurrenceId = Nil
    /\ todos[2].title # last.body.title

\* C28: deleteRecurringDef removes no todo, and the only fields of a todo it
\* changes are isRecurring and recurrenceId of the todos linked to the
\* deleted definition.
C28_DeleteDefinitionKeepsTodos ==
    [][ (last'.op = "deleteRecurringDef" /\ last'.status = "ok") =>
          /\ DOMAIN todos' = DOMAIN todos
          /\ \A t \in DOMAIN todos :
                /\ [todos'[t] EXCEPT !.isRecurring = todos[t].isRecurring,
                                     !.recurrenceId = todos[t].recurrenceId] = todos[t]
                /\ todos[t].recurrenceId # last'.id => todos'[t] = todos[t] ]_vars

C28_Witness ==
    /\ Answered("deleteRecurringDef")
    /\ last.id = 1
    /\ DOMAIN todos = {1, 2}
    /\ 1 \in last.before
    /\ todos[1].dueDate # Nil
    /\ todos[1].recurrenceId = Nil
    /\ todos[2].recurrenceId = 2

\* C29: a definition leaves the store only in a deleteRecurringDef that
\* names it; deleteTodo, a conversion to a one-off todo, updateTodo and
\* reorderTodos leave the definitions as they were, also when a definition
\* ends up with no linked todo.
C29_DefinitionsOnlyDeletedExplicitly ==
    [][ /\ (DOMAIN recurringDefs \ DOMAIN recurringDefs' # {}) =>
              /\ last'.op = "deleteRecurringDef"
              /\ last'.status = "ok"
              /\ DOMAIN recurringDefs \ DOMAIN recurringDefs' = {last'.id}
        /\ (\/ last'.op \in {"deleteTodo", "updateTodo", "reorderTodos"}
            \/ last'.op = "convertTodoRecurring" /\ ~last'.body.toRecurring) =>
              recurringDefs' = recurringDefs ]_vars

C29_Witness ==
    /\ Answered("deleteTodo")
    /\ last.id = 1
    /\ nextTodoID = 2
    /\ nextRecurringID = 2
    /\ todos = << >>
    /\ 1 \in DOMAIN recurringDefs
    /\ LinkedTo(todos, 1) = {}

\* C30: updateTodo never changes the todo's id, position, isRecurring,
\* recurrenceId or createdAt, whatever the body carries, nor any other todo,
\* nor any definition.
C30_UpdateTodoKeeps ==
    [][ (last'.op = "updateTodo" /\ last'.status = "ok") =>
          /\ last'.id \in DOMAIN todos
          /\ DOMAIN todos' = DOMAIN todos
          /\ todos'[last'.id].position = todos[last'.id].position
          /\ todos'[last'.id].isRecurring = todos[last'.id].isRecurring
          /\ todos'[last'.id].recurrenceId = todos[last'.id].recurrenceId
          /\ todos'[last'.id].createdAt = todos[last'.id].createdAt
          /\ \A t \in DOMAIN todos \ {last'.id} : todos'[t] = todos[t]
          /\ recurringDefs' = recurringDefs ]_vars

C30_Witness ==
    /\ Answered("updateTodo")
    /\ last.id = 2
    /\ ~last.body.isRecurring
    /\ last.body.recurrenceId = Nil
    /\ last.body.position = 0
    /\ todos[2].isRecurring
    /\ todos[2].recurrenceId = 1
    /\ todos[2].position = 1
    /\ todos[2].title = last.body.title
    /\ 1 \in DOMAIN todos
    /\ todos[1].title # last.body.title

\* C36: in every reachable state every completed todo has completedAt set,
\* also a todo that createTodo stored already completed.
C36_CompletedHasCompletedAt ==
    \A t \in DOMAIN todos : todos[t].completed => todos[t].completedAt # Nil

\* C37: a conversion to recurring of a todo that is linked to a definition
\* D stores a fresh definition, links the todo to it and recomputes the due
\* date, and leaves D as it was: the definitions grow by exactly one and D
\* has one linked todo less.
C37_ConvertLinkedMakesFreshDefinition ==
    [][ (/\ last'.op = "convertTodoRecurring" /\ last'.status = "ok"
         /\ last'.body.toRecurring
         /\ nextRecurringID' = nextRecurringID + 1
         /\ last'.before.recurrenceId \in DOMAIN recurringDefs) =>
            LET D == last'.before.recurrenceId
                fresh == todos'[last'.id].recurrenceId
            IN  /\ fresh \notin DOMAIN recurringDefs
                /\ DOMAIN recurringDefs' = DOMAIN recurringDefs \cup {fresh}
                /\ Cardinality(DOMAIN recurringDefs') = Cardinality(DOMAIN recurringDefs) + 1
                /\ \A d \in DOMAIN recurringDefs : recurringDefs'[d] = recurringDefs[d]
                /\ todos'[last'.id].isRecurring
                /\ todos'[last'.id].dueDate =
                       calculateNextDueDate(recurringDefs'[fresh].startDate,
                                            last'.body.pattern, clock')
                /\ LinkedTo(todos', D) = LinkedTo(todos, D) \ {last'.id}
                /\ Cardinality(LinkedTo(todos', D)) = Cardinality(LinkedTo(todos, D)) - 1 ]_vars

C37_Witness ==
    /\ Answered("convertTodoRecurring")
    /\ last.body.toRecurring
    /\ last.before.recurrenceId = 1
    /\ todos[last.id].recurrenceId = 2
    /\ DOMAIN recurringDefs = {1, 2}
    /\ recurringDefs[2].startDate > recurringDefs[1].startDate
    /\ todos[last.id].dueDate = recurringDefs[2].startDate
    /\ LinkedTo(todos, 1) = {}

\* C32: updateTodo does not change the order in which getTodos lists the
\* todos: a listing before the update and a listing after it are the same
\* sequence of ids.
C32_UpdateKeepsListOrder ==
    [][ (last'.op = "updateTodo" /\ last'.status = "ok") =>
          \A v \in Iterations(todos), w \in Iterations(todos') :
              InsertionSort(v, 2, todos) = InsertionSort(w, 2, todos') ]_vars

Lower(s) == [i \in DOMAIN s |-> IF s[i] \in 65..90 THEN s[i] + 32 ELSE s[i]]

\* The header is "Bearer <token>", the token validates and its email is,
\* up to the case of its letters, one of the allowed users.
Authorised(parts) ==
    /\ Len(parts) = 2
    /\ parts[1] = "Bearer"
    /\ ~validateDevToken(parts[2], clock).err
    /\ \E i \in DOMAIN authConfig.AllowedUsers :
           Lower(parts[2].email) = Lower(authConfig.AllowedUsers[i])

DevTokenStep == last'.op = "devToken" /\ (last' # last \/ auth'.token # auth.token)

\* C31: a handler of a todo or definition endpoint runs, and the store
\* changes, only for a request whose Bearer token validates and whose email
\* is an allowed user's, compared without regard to case; authMiddleware lets
\* exactly those requests pass and answers every other one 401 or 403 with
\* the store unchanged.
C31_HandlersNeedAuthorisation ==
    [][ /\ auth.status = "pass" => Authorised(auth.header)
        /\ auth.status # "pass" =>
              /\ UNCHANGED storeVars
              /\ last' # last => last'.op \in {"authMiddleware", "devToken"}
        /\ (auth.status # "pass" /\ ~DevTokenStep) =>
              /\ auth'.status = "pass" <=> Authorised(auth'.header)
              /\ auth'.status # "pass" =>
                    /\ auth'.status \in {"401", "403"}
                    /\ last'.op = "authMiddleware"
                    /\ last'.status = auth'.status ]_vars

C31_Witness ==
    /\ auth.status = "served"
    /\ auth.header[2].email = <<65, 64, 88>>
    /\ Answered("deleteTodo")
    /\ DOMAIN todos = {2}

\* C33: with the default configuration, a request that carries the dev
\* token devToken issued to alice, bob or charlie passes authMiddleware.
C33_DevTokensAccepted ==
    [][ (/\ auth.status # "pass" /\ ~DevTokenStep
         /\ auth.token # NoToken
         /\ clock < auth.token.exp
         /\ auth'.header = <<"Bearer", auth.token>>) =>
            auth'.status = "pass" ]_vars

\* C34: the displayed list holds exactly the todos that pass every active
\* filter: the selected user is among the assignees; a todo without
\* assignees is shown only when "Include unassigned" is on; and when any of
\* overdue, today, tomorrow, future is checked, the todo has a due date and
\* its category is a checked one.
C34_ShownIffPassesFilters ==
    ui # NoUI /\ ui.rendered =>
        LET f == ui.filterState
            d == f.dueDateFilters
            passes(i) ==
                /\ f.assignedToUser # "" =>
                      \E k \in DOMAIN ui.todos[i].assignedTo :
                          ui.todos[i].assignedTo[k] = f.assignedToUser
                /\ ~f.showUnassigned => ui.todos[i].assignedTo # << >>
                /\ (d.overdue \/ d.today \/ d.tomorrow \/ d.future) =>
                      /\ ui.todos[i].dueDate # Nil
                      /\ getDateCategory(ui.todos[i].dueDate, ui.today) \in
                            ( (IF d.overdue THEN {"overdue"} ELSE {})
                              \cup (IF d.today THEN {"today"} ELSE {})
                              \cup (IF d.tomorrow THEN {"tomorrow"} ELSE {})
                              \cup (IF d.future THEN {"future"} ELSE {}) )
        IN  /\ { ui.shown[k].id : k \in DOMAIN ui.shown } =
                   { i \in DOMAIN ui.todos : passes(i) }
            /\ \A k, m \in DOMAIN ui.shown : k < m => ui.shown[k].id < ui.shown[m].id

C34_Witness ==
    /\ ui # NoUI /\ ui.rendered
    /\ ui.filterState.assignedToUser = "alice"
    /\ ui.filterState.dueDateFilters =
           [overdue |-> FALSE, today |-> TRUE, tomorrow |-> FALSE, future |-> FALSE]
    /\ Len(ui.todos) = 2
    /\ ui.todos[1] = [assignedTo |-> <<"alice">>, dueDate |-> Nil]
    /\ ui.todos[2] = [assignedTo |-> <<"bob", "alice">>, dueDate |-> Today]
    /\ Len(ui.shown) = 1
    /\ ui.shown[1].id = 2

\* C38: after a drop inside the list, the dragged todo is the row at the
\* drop index of the displayed list, every other todo keeps its place
\* relative to the others, and the reorder request assigns the positions
\* 0..n-1 in the order of the new list, also while a filter hides todos.
C38_DropMovesDraggedRow ==
    (ui # NoUI /\ ui.result # NoResult /\ ui.result.destination # Nil) =>
        LET dragged == ui.result.draggableId
            rows == getFilteredTodos(ui.todos, ui.filterState, ui.today)
            others(list) == SelectSeq(list, LAMBDA todo : todo.id # dragged)
        IN  /\ rows[ui.result.destination + 1].id = dragged
            /\ others(ui.todos) = others(ui.before)
            /\ Len(ui.todos) = Len(ui.before)
            /\ ui.reorderData =
                   [k \in DOMAIN ui.todos |-> [id |-> ui.todos[k].id, position |-> k - 1]]

\* C39: when a tag was removed between the blur of the input and the
\* delayed save, the save persists the assignees as they are after the
\* removal.
C39_DelayedSaveSeesRemoval ==
    (ui # NoUI /\ ui.persisted /\ ui.removed) => ui.saved = ui.inlineAssignees

\* C35: a store operation whose input passed validation ends and releases
\* store.mu, whatever its startDate, so that under fair scheduling every
\* request that waits for the lock is served.
C35_WaitingRequestsServed ==
    \A p \in Procs :
        /\ (pc[p] \in {"lock", "rlock"}) ~> (pc[p] = "done")
        /\ (mu.writer = p) ~> (mu.writer # p)

=============================================================================
